---- MODULE Spec2Model ----
(***************************************************************************)
(* Motion/command core of the Pelco-D rotor controller                     *)
(* (src/pelco_commands.py, src/state.py, src/easycomm_server.py,           *)
(* src/peltrack.py), with the configuration store of src/state.py and the  *)
(* frame checksum of src/tools/pelco_query_test.py.                        *)
(*                                                                         *)
(* Units.  Angles are whole degrees.  Time is counted in units of 1/900 s, *)
(* so that the 0.05 s polling increment of _sleep_with_cancel and the      *)
(* 0.05 s pause of send_pelco_d are 45 units and the 0.25 s progress       *)
(* interval of calibrate is 225 units.  Speeds are degrees per time unit.  *)
(* The tunables of RotorState._CONFIG are the values of configurations the *)
(* program can be run with (config.json overrides the defaults); they are  *)
(* chosen so that every duration |delta| / speed is a whole number of time *)
(* units: AZIMUTH_SPEED_DPS = 2, ELEVATION_SPEED_DPS = 1, the near-stop    *)
(* speed factors and the timing safety factor are 1.                       *)
(*                                                                         *)
(* Each thread is a record: the operation it runs, its position in the     *)
(* code (pc), the locals of the operation, the last payload it passed to   *)
(* the update callback, and observations of the run that the properties    *)
(* at the end of the module read.  Each TCP connection is a record: the    *)
(* bytes its peer sends, the locals of its handler and the replies sent.   *)
(***************************************************************************)
EXTENDS Integers, Sequences, FiniteSets, TLC

\* ------------------------------------------------------------------------
\* Limits (pelco_commands._load_limits defaults)
\* ------------------------------------------------------------------------
AZ_MIN == 0
AZ_MAX == 360
ELEVATION_MIN == 45
ELEVATION_MAX == 135

\* state.RotorState.DEVICE_ADDRESS
DEVICE_ADDRESS == 1

\* ------------------------------------------------------------------------
\* RotorState._CONFIG (one configuration)
\* ------------------------------------------------------------------------
AZIMUTH_SPEED_DPS == 2
ELEVATION_SPEED_DPS == 1
EL_NEAR_STOP_DEG == 8
EL_BREAKAWAY_SEC_DOWN == 45
EL_BREAKAWAY_SPEED_BYTE == 63
\* EL_UP_NEAR_STOP_FACTOR and EL_DOWN_NEAR_STOP_FACTOR as fractions Num/Den
EL_UP_NEAR_STOP_FACTOR_NUM == 1
EL_UP_NEAR_STOP_FACTOR_DEN == 1
EL_DOWN_NEAR_STOP_FACTOR_NUM == 1
EL_DOWN_NEAR_STOP_FACTOR_DEN == 1
\* TIME_SAFETY_FACTOR as a fraction (_safety accepts 0.90 .. 1.00)
TIME_SAFETY_NUM == 1
TIME_SAFETY_DEN == 1

\* pan_speed / tilt_speed defaults of _pelco_move_axes (0x20)
DefaultSpeedByte == 32


\* the pause of send_pelco_d after each frame it writes: time.sleep(0.05)
FramePause == 45

\* calibrate: stage durations, and the progress interval of _sleep_with_ticks
CALIBRATE_DOWN_DURATION_SEC == 270
CALIBRATE_UP_TRAVEL_DEGREES == 90
CALIBRATE_AZ_LEFT_DURATION_SEC == 90
TickInterval == 225

\* run_demo_sequence: the settle time between steps, and the steps
SettleSec == 225
DemoSteps == << << 0, 90 >>, << 80, 60 >>, << 180, 45 >>, << 270, 135 >>, << 0, 90 >> >>

\* the polling increment of _sleep_with_cancel: min(0.05, remaining)
PollInc == 45

\* ------------------------------------------------------------------------
\* Inputs
\* ------------------------------------------------------------------------
\* threads that run motion operations (request handlers, move threads,
\* background threads)
Threads == {1, 2}
\* the TCP connections
Conns == {1, 2}
\* requested <<azimuth, elevation>>: below, inside and above the limits
Requests == { << -10, 0 >>, << 90, 90 >>, << 90, 200 >>, << 400, 200 >> }
\* the requests made through the web form
UiRequests == { << 90, 90 >>, << 400, 200 >> }
\* the longest nudge, in polling increments
MaxNudgePolls == 2
\* the duration argument of nudge_azimuth / nudge_elevation
NudgeDurations == { k * PollInc : k \in 1..MaxNudgePolls }

\* ------------------------------------------------------------------------
\* Pure helpers
\* ------------------------------------------------------------------------
Max(a, b) == IF a >= b THEN a ELSE b
Min(a, b) == IF a <= b THEN a ELSE b
Abs(x) == IF x < 0 THEN -x ELSE x
Sign(x) == IF x > 0 THEN 1 ELSE IF x < 0 THEN -1 ELSE 0

\* _clamp(v, lo, hi) = max(lo, min(hi, v))
ClampLowOnly(v, lo, hi) == Max(lo, v)
clamp(v, lo, hi) == Max(lo, Min(hi, v))

\* the 7 bytes send_pelco_d writes
PelcoFrame(cmd1, cmd2, data1, data2) ==
    << 255, DEVICE_ADDRESS, cmd1, cmd2, data1, data2,
       (DEVICE_ADDRESS + cmd1 + cmd2 + data1 + data2) % 256 >>

\* a frame that tilts up at the default speed
TiltUpFrame == PelcoFrame(0, 8, 0, 32)

\* the frame _stop_motor sends
StopFrame == PelcoFrame(0, 0, 0, 0)

\* cmd2 / data1 / data2 computed by _pelco_move_axes (bits are disjoint, so
\* the bitwise OR is a sum)
MoveCmd2(az_dir, el_dir) ==
    (IF az_dir > 0 THEN 2 ELSE IF az_dir < 0 THEN 4 ELSE 0)
  + (IF el_dir > 0 THEN 8 ELSE IF el_dir < 0 THEN 16 ELSE 0)

\* a frame that carries both speed bytes whatever the directions
SpeedOnBothAxes(az_dir, el_dir, pan_speed, tilt_speed) ==
    PelcoFrame(0, MoveCmd2(az_dir, el_dir), pan_speed, tilt_speed)

\* the frame _pelco_move_axes sends: the stop frame when cmd2 == 0, else
\* the speed byte of each axis that moves
MoveFrame(az_dir, el_dir, pan_speed, tilt_speed) ==
    IF MoveCmd2(az_dir, el_dir) = 0
    THEN StopFrame
    ELSE PelcoFrame(0, MoveCmd2(az_dir, el_dir),
                    IF az_dir # 0 THEN pan_speed ELSE 0,
                    IF el_dir # 0 THEN tilt_speed ELSE 0)

\* near_low / near_high of _breakaway_tilt and _effective_el_speed
NearLow(el) == el <= ELEVATION_MIN + EL_NEAR_STOP_DEG
NearHigh(el) == el >= ELEVATION_MAX - EL_NEAR_STOP_DEG

\* _effective_el_speed as a fraction <<num, den>>
EffectiveElSpeed(direction, el) ==
    IF direction > 0 /\ NearLow(el)
    THEN << ELEVATION_SPEED_DPS * EL_UP_NEAR_STOP_FACTOR_NUM, EL_UP_NEAR_STOP_FACTOR_DEN >>
    ELSE IF direction < 0 /\ NearHigh(el)
    THEN << ELEVATION_SPEED_DPS * EL_DOWN_NEAR_STOP_FACTOR_NUM, EL_DOWN_NEAR_STOP_FACTOR_DEN >>
    ELSE << ELEVATION_SPEED_DPS, 1 >>

\* send_command: (abs(delta) / speed) * sf, 0 when the speed is not positive
MotionTime(delta, speed) ==
    IF speed[1] > 0
    THEN (Abs(delta) * speed[2] * TIME_SAFETY_NUM) \div (speed[1] * TIME_SAFETY_DEN)
    ELSE 0

\* degrees covered in `secs` at `speed`: direction * speed * secs
Travel(direction, speed, secs) == direction * ((speed[1] * secs) \div speed[2])

\* ------------------------------------------------------------------------
\* State
\* ------------------------------------------------------------------------
VARIABLES
    position,       \* RotorState._POSITION: <<azimuth, elevation>>
    serial_port,    \* RotorState._SERIAL_PORT is set
    last_request,   \* RotorState._LAST_REQUEST + _LAST_WAS_CLAMPED, or NoRequest
    cancel_event,   \* pelco_commands._cancel_event
    motion_lock,    \* pelco_commands._motion_lock (re-entrant): owner and depth
    move_lock,      \* EasyCommServer._move_lock: owner, 0 when free
    wire,           \* the last frame written to the serial port, and its writer
    thr,            \* per thread: the operation it runs, its position in it, its locals
    stopper,        \* position of the caller of stop() (UI stop / TCP STOP)
    config,         \* RotorState._CONFIG: the tunables that differ between runs
    conn,           \* per TCP connection: the socket and the locals of _handle_client
    listening,      \* EasyCommServer._run is in its accept loop
    tool,           \* tools/pelco_query_test.py: the packet at hand and its verdict
    disk,           \* the config file (_CONFIG_FILE) and its temp file
    cfgop,          \* the caller of set_config / get_config: position and locals
    state_lock,     \* RotorState.lock (re-entrant): owner and depth
    lk              \* per caller: the operation it runs, seen as the locks it takes

\* the state of the TCP server
tcp == << conn, listening >>

\* the state lock and the callers that take it
locks == << state_lock, lk >>

\* the state beside the motion core and the TCP server
aux == << tool, disk, cfgop, state_lock, lk >>

vars == << position, serial_port, last_request, cancel_event, motion_lock,
           move_lock, wire, thr, stopper, config, conn, listening, tool,
           disk, cfgop, state_lock, lk >>

\* a configuration with the upward kick and, as in
\* RotorState._DEFAULT_CONFIG, both normalization passes skipped; and one
\* with both passes enabled and no upward kick
ConfigChoices ==
    { [EL_BREAKAWAY_SEC_UP |-> 90, EL_APPROACH_OVERSHOOT_DEG |-> 0, ZERO_OVERDRIVE_SEC |-> 0],
      [EL_BREAKAWAY_SEC_UP |-> 0, EL_APPROACH_OVERSHOOT_DEG |-> 45, ZERO_OVERDRIVE_SEC |-> 45] }

\* a kick whenever elevation moves, wherever the elevation stands
KickAnywhere(direction, el) ==
    IF direction > 0 THEN Max(0, config.EL_BREAKAWAY_SEC_UP)
    ELSE IF direction < 0 THEN Max(0, EL_BREAKAWAY_SEC_DOWN)
    ELSE 0

\* _breakaway_tilt: the length of the kick (0: no kick)
BreakawaySec(direction, el) ==
    IF direction > 0 /\ NearLow(el) THEN Max(0, config.EL_BREAKAWAY_SEC_UP)
    ELSE IF direction < 0 /\ NearHigh(el) THEN Max(0, EL_BREAKAWAY_SEC_DOWN)
    ELSE 0

NoRequest == << >>
\* a connection the server has not accepted yet
NoConn ==
    [ state |-> "new",          \* "new", "open" (_handle_client runs) or "closed"
      stream |-> << >>,         \* the bytes the peer sends on the connection
      off |-> 0,                \* how many of them recv has returned
      buffer |-> << >>,         \* _handle_client: buffer
      pc |-> "recv",            \* "recv", "lines" (the inner while loop) or "stop"
      replies |-> << >>,        \* what _sendline has sent, in order
      last |-> [what |-> "none", line |-> << >>, result |-> << >>] ]
                                \* the last line handled, or the last chunk refused
NoFrame == [frame |-> << >>, by |-> 0]
\* the query tool holds no packet
NoPacket == [pkt |-> << >>, changed |-> 0, verdict |-> "none"]
\* RotorState._DEFAULT_CONFIG, the tunables that differ between runs
DEFAULT_CONFIG ==
    [EL_BREAKAWAY_SEC_UP |-> 540, EL_APPROACH_OVERSHOOT_DEG |-> 0, ZERO_OVERDRIVE_SEC |-> 0]
\* a file that does not exist; a file that exists holds the JSON text of
\* `data`, all of it ("complete"), a prefix of it ("partial") or nothing yet
NoFile == [exists |-> FALSE, data |-> DEFAULT_CONFIG, part |-> "empty"]
NoDisk == [file |-> NoFile, tmp |-> NoFile]
\* get_config returned None / a value
NotFound == [found |-> FALSE, value |-> 0]
Found(v) == [found |-> TRUE, value |-> v]
\* no set_config is running and get_config was not called
NoSave == [pc |-> "idle", key |-> "none", value |-> 0, failed |-> FALSE,
           raised |-> FALSE, got_key |-> "none", got |-> NotFound]
\* writer id of frames written by stop()
StopCaller == Cardinality(Threads) + 1

\* a thread that runs nothing
Blank ==
    [ op |-> "none", pc |-> "idle", ret |-> "none",
      req_az |-> 0, req_el |-> 0, az_target |-> 0, el_target |-> 0,
      was_clamped |-> FALSE, az_current |-> 0, el_current |-> 0,
      slept |-> 0, dur |-> 0, partial_az |-> 0, partial_el |-> 0,
      return_msg |-> "none", raised |-> FALSE,
      dir |-> 0,                \* nudge_*: direction
      stage |-> 0,              \* calibrate: the stage being run (1 down, 2 up, 3 left)
      remaining |-> 0,          \* calibrate._sleep_with_ticks: remaining
      canceled |-> FALSE,       \* calibrate: canceled
      cal_elapsed |-> 0,        \* calibrate: elapsed
      slept_total |-> 0,        \* calibrate._sleep_with_ticks: slept_total
      \* the last payload this invocation passed to update_callback
      upd_busy |-> "none",      \* its busy field: "true", "false" or "absent"
      upd_stage |-> "none",     \* its cal_stage field
      upd_progress |-> << 0, 1 >>,  \* its cal_progress field, as a fraction
      upd_msg |-> "none",       \* its msg field
      upd_req |-> << 0, 0, FALSE >>,  \* its req_az, req_el and clamped fields
      finals |-> 0,             \* how many payloads with busy False it has passed
      step_i |-> 0,             \* run_demo_sequence: index of the next step
      \* observations kept for the properties
      pos_before |-> << 0, 0 >>,  \* nudge_*, calibrate: the stored position when it started
      own_last |-> "none",      \* kind of the last frame this invocation wrote
      back_to_back |-> FALSE,   \* it wrote a motion frame right after a motion frame
      kicked |-> FALSE,         \* it wrote the frame of a breakaway pulse
      queued |-> FALSE,         \* the invocation waited for a motion lock another thread held
      stop_queued |-> FALSE,    \* stop() set the signal while it so waited
      stop_during |-> FALSE,    \* stop() set the signal after this invocation cleared it
      stop_driving |-> FALSE,   \* ... while a measured motion phase had time left
      saw_cancel |-> FALSE,     \* the operation read the signal as set
      drive_az |-> 0,           \* time the azimuth axis was driven in measured phases
      drive_el |-> 0,           \* time the elevation axis was driven in measured phases
      elapsed |-> 0 ]           \* time spent in waits and frame pauses since the clear

\* locals of send_command derived from the stored ones
az_delta(L) == L.az_target - L.az_current
el_delta(L) == L.el_target - L.el_current
az_dir(L) == Sign(az_delta(L))
el_dir(L) == Sign(el_delta(L))
az_speed == << AZIMUTH_SPEED_DPS, 1 >>
el_speed_eff(L) == EffectiveElSpeed(el_dir(L), L.el_current)
az_time(L) == MotionTime(az_delta(L), az_speed)
el_time(L) == MotionTime(el_delta(L), el_speed_eff(L))

\* the length of the both-axes phase: first = min(az_time, el_time)
Longest(L) == Max(az_time(L), el_time(L))
first(L) == Min(az_time(L), el_time(L))

\* send_command.progress(dt_both, dt_az_only, dt_el_only)
progress(L, dt_both, dt_az_only, dt_el_only) ==
    << Travel(az_dir(L), az_speed, dt_both) + Travel(az_dir(L), az_speed, dt_az_only),
       Travel(el_dir(L), el_speed_eff(L), dt_both) + Travel(el_dir(L), el_speed_eff(L), dt_el_only) >>

\* update_callback({"busy": True, "req_az": ..., "req_el": ..., "clamped": ...})
EmittedBusy(L) ==
    [L EXCEPT !.upd_busy = "true", !.upd_msg = "none",
              !.upd_req = << L.req_az, L.req_el, L.was_clamped >>, !.finals = 0]

\* update_callback({"busy": False, "msg": msg, "req_az": ..., "req_el": ...,
\* "clamped": ...})
EmittedFinal(L, msg) ==
    [L EXCEPT !.upd_busy = "false", !.upd_msg = msg,
              !.upd_req = << L.req_az, L.req_el, L.was_clamped >>, !.finals = @ + 1]

\* the early return of send_command: az_delta == 0 and el_delta == 0
NoShortCircuit(azd, eld) == FALSE
NoMovementNeeded(azd, eld) == azd = 0 /\ eld = 0

Init ==
    /\ position = << 0, 0 >>
    /\ serial_port \in BOOLEAN
    /\ last_request = NoRequest
    /\ cancel_event = FALSE
    /\ motion_lock = [owner |-> 0, count |-> 0]
    /\ move_lock = 0
    /\ wire = NoFrame
    /\ thr = [t \in Threads |-> Blank]
    /\ stopper = "idle"
    /\ config \in ConfigChoices
    /\ conn = [c \in Conns |-> NoConn]
    /\ listening = FALSE
    /\ tool = NoPacket
    /\ disk = NoDisk
    /\ cfgop = NoSave
    /\ state_lock = [owner |-> 0, count |-> 0]
    /\ lk = [u \in Threads \cup { StopCaller, StopCaller + 1 } |->
                [op |-> "none", pc |-> "idle", todo |-> << >>, calls |-> 0,
                 after |-> << >>]]


\* ------------------------------------------------------------------------
\* Locks
\* ------------------------------------------------------------------------
\* threading.RLock: free, or already held by the caller
NeverBlocks(t) == TRUE
\* threading.Lock: free
NotReentrant(t) == motion_lock.owner = 0
CanAcquireMotion(t) == motion_lock.owner \in {0, t}

AcquiredMotion(t) == [owner |-> t, count |-> motion_lock.count + 1]
\* a lock that is not re-entered: leaving any "with" block frees it
ReleasedAtOnce == [owner |-> 0, count |-> 0]
ReleasedMotion ==
    IF motion_lock.count = 1
    THEN [owner |-> 0, count |-> 0]
    ELSE [owner |-> motion_lock.owner, count |-> motion_lock.count - 1]

\* ------------------------------------------------------------------------
\* Frames
\* ------------------------------------------------------------------------
\* send_pelco_d by thread t with the serial port set
Written(t, frame) == [frame |-> frame, by |-> t]
FrameKind(frame) == IF frame = StopFrame THEN "stop" ELSE "move"

\* the locals of a thread after send_pelco_d wrote `frame` and paused
Sent(L, frame) ==
    [L EXCEPT !.own_last = FrameKind(frame), !.elapsed = @ + FramePause,
              !.back_to_back = @ \/ (FrameKind(frame) = "move" /\ L.own_last = "move")]

\* _stop_motor(): writes the stop frame, or nothing without a serial port
\* (the RuntimeError is swallowed)
WireUntouched(t) == wire
WrittenBlind(t) == Written(t, StopFrame)
WireAfterStop(t) == IF serial_port THEN Written(t, StopFrame) ELSE wire
AfterStop(L) == IF serial_port THEN Sent(L, StopFrame) ELSE L

\* ------------------------------------------------------------------------
\* stop(): _cancel_event.set(), then _stop_motor()
\* ------------------------------------------------------------------------
\* the phases of send_command in which a measured pulse is being timed
MeasuredPcs == {"mv_both", "mv_rest_az", "mv_rest_el", "mv_az", "mv_el"}
\* an operation was invoked and has not yet passed its _cancel_event.clear()
PendingPcs == {"mv_wait", "sc_lock", "sc_clear", "nz_lock", "nz_clear",
               "cal_lock", "cal_clear", "demo_lock", "demo_clear"}
\* no operation is in progress on the thread
RestPcs == {"idle", "done", "mv_unlock"}
\* the thread is about to enter "with _motion_lock"
LockWaitPcs == {"sc_lock", "nz_lock", "cal_lock", "demo_lock"}
\* thread t waits for a motion lock that another thread holds
Queued(t) == thr[t].pc \in LockWaitPcs /\ motion_lock.owner \notin {0, t}

SetSignal ==
    /\ stopper = "idle"
    /\ cancel_event' = TRUE
    /\ stopper' = "stop_motor"
    /\ thr' = [t \in Threads |->
                 IF thr[t].pc \in RestPcs THEN thr[t]
                 ELSE IF thr[t].pc \in PendingPcs
                 THEN [thr[t] EXCEPT !.stop_queued = @ \/ Queued(t)]
                 ELSE [thr[t] EXCEPT
                         !.stop_during = TRUE,
                         !.stop_driving = @ \/ (thr[t].pc \in MeasuredPcs
                                                /\ thr[t].slept < thr[t].dur)]]
    /\ UNCHANGED << position, serial_port, last_request, motion_lock, move_lock,
                    wire, config, aux >>

\* stop() called from peltrack.control, action "stop"
StopSet == SetSignal /\ UNCHANGED tcp

\* _stop_motor() called by stop()
WriteStop ==
    /\ stopper = "stop_motor"
    /\ stopper' = "idle"
    /\ wire' = WireAfterStop(StopCaller)
    /\ UNCHANGED << position, serial_port, last_request, cancel_event, motion_lock,
                    move_lock, thr, config, aux >>

StopMotor == WriteStop /\ UNCHANGED tcp

\* init_serial(): RotorState.set_serial_port
InitSerial ==
    /\ ~serial_port
    /\ serial_port' = TRUE
    /\ UNCHANGED << position, last_request, cancel_event, motion_lock, move_lock,
                    wire, thr, stopper, config, tcp, aux >>

\* ------------------------------------------------------------------------
\* Callers of send_command
\* ------------------------------------------------------------------------
\* peltrack.control, action "set": clamp with LIMITS, set_last_request, then
\* send_command(az, el) with the clamped values
UiSet(t, a, e) ==
    /\ thr[t].pc = "idle"
    /\ LET az == Max(AZ_MIN, Min(AZ_MAX, a))
           el == Max(ELEVATION_MIN, Min(ELEVATION_MAX, e))
       IN /\ last_request' = << a, e, (az # a) \/ (el # e) >>
          /\ thr' = [thr EXCEPT ![t] = [Blank EXCEPT
                       !.op = "send_command", !.pc = "sc_lock", !.ret = "ui",
                       !.req_az = az, !.req_el = el]]
    /\ UNCHANGED << position, serial_port, cancel_event, motion_lock, move_lock,
                    wire, stopper, config, tcp, aux >>

\* threading.Thread(target=self._move_async, args=(az, el)).start()
StartMove(t, a, e) ==
    /\ thr[t].pc = "idle"
    /\ thr' = [thr EXCEPT ![t] = [Blank EXCEPT
                 !.op = "send_command", !.pc = "mv_wait", !.ret = "tcp",
                 !.req_az = a, !.req_el = e]]
    /\ UNCHANGED << position, serial_port, last_request, cancel_event, motion_lock,
                    move_lock, wire, stopper, config, aux >>

\* EasyCommServer._handle_client: a parsed set-position line starts a thread
\* running _move_async(az, el)
MoveAsync(t, a, e) == StartMove(t, a, e) /\ UNCHANGED tcp

\* _move_async: with self._move_lock
MoveLockAcquire(t) ==
    /\ thr[t].pc = "mv_wait"
    /\ move_lock = 0
    /\ move_lock' = t
    /\ thr' = [thr EXCEPT ![t].pc = "sc_lock"]
    /\ UNCHANGED << position, serial_port, last_request, cancel_event, motion_lock,
                    wire, stopper, config, tcp, aux >>

\* _move_async: leaving the with block (a RuntimeError is logged, not raised)
MoveLockRelease(t) ==
    /\ thr[t].pc = "mv_unlock"
    /\ move_lock' = 0
    /\ thr' = [thr EXCEPT ![t].pc = "done"]
    /\ UNCHANGED << position, serial_port, last_request, cancel_event, motion_lock,
                    wire, stopper, config, tcp, aux >>

\* ------------------------------------------------------------------------
\* send_command
\* ------------------------------------------------------------------------
\* with _motion_lock
ScLock(t) ==
    /\ thr[t].pc = "sc_lock"
    /\ CanAcquireMotion(t)
    /\ motion_lock' = AcquiredMotion(t)
    /\ thr' = [thr EXCEPT ![t].pc = "sc_clear"]
    /\ UNCHANGED << position, serial_port, last_request, cancel_event, move_lock,
                    wire, stopper, config, tcp, aux >>

\* the value of the signal after the _cancel_event.clear() that opens an operation
KeepsSignal == cancel_event
Cleared == FALSE

\* the observations of an invocation start afresh at its clear
AtClear(L) ==
    [L EXCEPT !.stop_during = FALSE, !.stop_driving = FALSE, !.saw_cancel = FALSE,
              !.own_last = "none", !.back_to_back = FALSE,
              !.elapsed = 0, !.drive_az = 0, !.drive_el = 0]

\* _cancel_event.clear()
ScClear(t) ==
    /\ thr[t].pc = "sc_clear"
    /\ cancel_event' = Cleared
    /\ thr' = [thr EXCEPT ![t] = [AtClear(thr[t]) EXCEPT !.pc = "sc_begin"]]
    /\ UNCHANGED << position, serial_port, last_request, motion_lock, move_lock,
                    wire, stopper, config, tcp, aux >>

\* requested vs clamped, the busy update, current state, deltas; the early
\* return with its final update
ScBegin(t) ==
    /\ thr[t].pc = "sc_begin"
    /\ LET L == thr[t]
           azt == clamp(L.req_az, AZ_MIN, AZ_MAX)
           elt == clamp(L.req_el, ELEVATION_MIN, ELEVATION_MAX)
           wc == (azt # L.req_az) \/ (elt # L.req_el)
           M == EmittedBusy(
                  [L EXCEPT !.az_target = azt, !.el_target = elt, !.was_clamped = wc,
                          !.az_current = position[1], !.el_current = position[2],
                          !.partial_az = 0, !.partial_el = 0, !.slept = 0, !.dur = 0,
                          !.raised = FALSE, !.return_msg = "Move interrupted"])
       IN thr' = [thr EXCEPT ![t] =
                IF NoMovementNeeded(az_delta(M), el_delta(M))
                THEN [EmittedFinal(M, "No movement needed") EXCEPT
                        !.return_msg = "No movement needed", !.pc = "sc_exit"]
                ELSE [M EXCEPT !.pc = IF el_dir(M) # 0 THEN "bk_begin" ELSE "mv_begin"]]
    /\ UNCHANGED << position, serial_port, last_request, cancel_event, motion_lock,
                    move_lock, wire, stopper, config, tcp, aux >>

\* _breakaway_tilt(el_dir): the kick frame, when one is due
BreakawayBegin(t) ==
    /\ thr[t].pc = "bk_begin"
    /\ LET L == thr[t]
           sec == BreakawaySec(el_dir(L), position[2])
           frame == MoveFrame(0, el_dir(L), DefaultSpeedByte, EL_BREAKAWAY_SPEED_BYTE)
       IN IF sec > 0
          THEN IF serial_port
               THEN /\ wire' = Written(t, frame)
                    /\ thr' = [thr EXCEPT ![t] = [Sent(L, frame) EXCEPT
                                  !.pc = "bk_sleep", !.slept = 0, !.dur = sec,
                                  !.kicked = TRUE]]
               ELSE /\ wire' = wire
                    /\ thr' = [thr EXCEPT ![t].pc = "sc_finally", ![t].raised = TRUE]
          ELSE /\ wire' = wire
               /\ thr' = [thr EXCEPT ![t].pc = "bk_check"]
    /\ UNCHANGED << position, serial_port, last_request, cancel_event, motion_lock,
                    move_lock, stopper, config, tcp, aux >>

\* _breakaway_tilt: _stop_motor() after the kick
BreakawayStop(t) ==
    /\ thr[t].pc = "bk_stop"
    /\ wire' = WireAfterStop(t)
    /\ thr' = [thr EXCEPT ![t] = [AfterStop(thr[t]) EXCEPT !.pc = "bk_check"]]
    /\ UNCHANGED << position, serial_port, last_request, cancel_event, motion_lock,
                    move_lock, stopper, config, tcp, aux >>

\* if _cancel_event.is_set(): _stop_motor(); set_position(az_current, el_current);
\* the final update; return return_msg  (the finally block still runs)
BreakawayCheck(t) ==
    /\ thr[t].pc = "bk_check"
    /\ IF cancel_event
       THEN /\ wire' = WireAfterStop(t)
            /\ position' = << thr[t].az_current, thr[t].el_current >>
            /\ thr' = [thr EXCEPT ![t] =
                          [EmittedFinal(AfterStop(thr[t]), thr[t].return_msg) EXCEPT
                             !.pc = "sc_finally", !.saw_cancel = TRUE]]
       ELSE /\ thr' = [thr EXCEPT ![t].pc = "mv_begin"]
            /\ UNCHANGED << wire, position >>
    /\ UNCHANGED << serial_port, last_request, cancel_event, motion_lock,
                    move_lock, stopper, config, tcp, aux >>

\* 2) axis-staggered motion: the first frame of the branch taken
MoveBegin(t) ==
    /\ thr[t].pc = "mv_begin"
    /\ LET L == thr[t]
           both == az_dir(L) # 0 /\ el_dir(L) # 0
           frame == IF both THEN MoveFrame(az_dir(L), el_dir(L), DefaultSpeedByte, DefaultSpeedByte)
                    ELSE IF az_dir(L) # 0 THEN MoveFrame(az_dir(L), 0, DefaultSpeedByte, DefaultSpeedByte)
                    ELSE MoveFrame(0, el_dir(L), DefaultSpeedByte, DefaultSpeedByte)
           M == [L EXCEPT
                   !.pc = IF both THEN "mv_both"
                          ELSE IF az_dir(L) # 0 THEN "mv_az" ELSE "mv_el",
                   !.slept = 0,
                   !.dur = IF both THEN first(L)
                           ELSE IF az_dir(L) # 0 THEN az_time(L) ELSE el_time(L)]
       IN \* _pelco_move_axes with no direction calls _stop_motor, which never raises
          IF serial_port
          THEN /\ wire' = Written(t, frame)
               /\ thr' = [thr EXCEPT ![t] = Sent(M, frame)]
          ELSE IF frame = StopFrame
          THEN /\ wire' = wire
               /\ thr' = [thr EXCEPT ![t] = M]
          ELSE /\ wire' = wire
               /\ thr' = [thr EXCEPT ![t].pc = "sc_finally", ![t].raised = TRUE]
    /\ UNCHANGED << position, serial_port, last_request, cancel_event, motion_lock,
                    move_lock, stopper, config, tcp, aux >>

\* after the both-axes sleep: the canceled branch, or the remainder phase
MoveBothEnd(t) ==
    /\ thr[t].pc = "mv_both_end"
    /\ LET L == thr[t]
       IN IF L.slept < first(L) \/ cancel_event
          THEN \* progress(slept, 0, 0); _stop_motor()
               /\ wire' = WireAfterStop(t)
               /\ thr' = [thr EXCEPT ![t] = [AfterStop(L) EXCEPT
                     !.pc = "sc_norm",
                     !.saw_cancel = TRUE,
                     !.partial_az = @ + progress(L, L.slept, 0, 0)[1],
                     !.partial_el = @ + progress(L, L.slept, 0, 0)[2]]]
          ELSE IF az_time(L) # el_time(L)
          THEN \* _pelco_move_axes for the axis with time left
               LET azrest == az_time(L) > el_time(L)
                   frame == IF azrest
                            THEN MoveFrame(az_dir(L), 0, DefaultSpeedByte, DefaultSpeedByte)
                            ELSE MoveFrame(0, el_dir(L), DefaultSpeedByte, DefaultSpeedByte)
               IN IF serial_port
                  THEN /\ wire' = Written(t, frame)
                       /\ thr' = [thr EXCEPT ![t] = [Sent(L, frame) EXCEPT
                             !.pc = IF azrest THEN "mv_rest_az" ELSE "mv_rest_el",
                             !.slept = 0,
                             !.dur = Abs(az_time(L) - el_time(L))]]
                  ELSE /\ wire' = wire
                       /\ thr' = [thr EXCEPT ![t].pc = "sc_finally", ![t].raised = TRUE]
          ELSE \* equal times: progress(first, 0, 0); _stop_motor(); "Moved to"
               /\ wire' = WireAfterStop(t)
               /\ thr' = [thr EXCEPT ![t] = [AfterStop(L) EXCEPT
                     !.pc = "sc_norm",
                     !.partial_az = @ + progress(L, first(L), 0, 0)[1],
                     !.partial_el = @ + progress(L, first(L), 0, 0)[2],
                     !.return_msg = "Moved to"]]
    /\ UNCHANGED << position, serial_port, last_request, cancel_event, motion_lock,
                    move_lock, stopper, config, tcp, aux >>

\* after the remainder sleep: progress(first, slept2, 0) or progress(first, 0, slept2);
\* _stop_motor(); return_msg = "Moved to ..."
MoveRestEnd(t) ==
    /\ thr[t].pc \in {"mv_rest_az_end", "mv_rest_el_end"}
    /\ LET L == thr[t]
           p == IF L.pc = "mv_rest_az_end"
                THEN progress(L, first(L), L.slept, 0)
                ELSE progress(L, first(L), 0, L.slept)
       IN /\ wire' = WireAfterStop(t)
          /\ thr' = [thr EXCEPT ![t] = [AfterStop(L) EXCEPT
                !.pc = "sc_norm",
                !.partial_az = @ + p[1],
                !.partial_el = @ + p[2],
                !.return_msg = "Moved to"]]
    /\ UNCHANGED << position, serial_port, last_request, cancel_event, motion_lock,
                    move_lock, stopper, config, tcp, aux >>

\* single-axis branches: partial += dir * speed * slept; _stop_motor();
\* "Moved to" if slept >= time and the signal is not set
MoveSingleEnd(t) ==
    /\ thr[t].pc \in {"mv_az_end", "mv_el_end"}
    /\ LET L == thr[t]
           isaz == L.pc = "mv_az_end"
           time == IF isaz THEN az_time(L) ELSE el_time(L)
           done == L.slept >= time /\ ~cancel_event
       IN /\ wire' = WireAfterStop(t)
          /\ thr' = [thr EXCEPT ![t] = [AfterStop(L) EXCEPT
                !.pc = "sc_norm",
                !.partial_az = IF isaz THEN @ + Travel(az_dir(L), az_speed, L.slept) ELSE @,
                !.partial_el = IF isaz THEN @ ELSE @ + Travel(el_dir(L), el_speed_eff(L), L.slept),
                !.return_msg = IF done THEN "Moved to" ELSE @,
                !.saw_cancel = @ \/ cancel_event]]
    /\ UNCHANGED << position, serial_port, last_request, cancel_event, motion_lock,
                    move_lock, stopper, config, tcp, aux >>

\* 3) approach normalization: only when not canceled, the target elevation
\* is 90 and EL_APPROACH_OVERSHOOT_DEG > 0
NormDuration(L) ==
    MotionTime(config.EL_APPROACH_OVERSHOOT_DEG, el_speed_eff(L))

ScNorm(t) ==
    /\ thr[t].pc = "sc_norm"
    /\ LET L == thr[t]
           frame == MoveFrame(0, 1, DefaultSpeedByte, DefaultSpeedByte)
       IN IF ~cancel_event /\ L.el_target = 90 /\ config.EL_APPROACH_OVERSHOOT_DEG > 0
          THEN IF serial_port
               THEN /\ wire' = Written(t, frame)
                    /\ thr' = [thr EXCEPT ![t] = [Sent(L, frame) EXCEPT
                                  !.pc = "no_up", !.slept = 0, !.dur = NormDuration(L)]]
               ELSE /\ wire' = wire
                    /\ thr' = [thr EXCEPT ![t].pc = "sc_finally", ![t].raised = TRUE]
          ELSE /\ wire' = wire
               /\ thr' = [thr EXCEPT ![t].pc = "sc_zero", ![t].saw_cancel = @ \/ cancel_event]
    /\ UNCHANGED << position, serial_port, last_request, cancel_event, motion_lock,
                    move_lock, stopper, config, tcp, aux >>

\* _stop_motor() after the up pulse, then the frame of the down pulse
NormUpEnd(t) ==
    /\ thr[t].pc = "no_up_end"
    /\ LET L == thr[t]
           frame == MoveFrame(0, -1, DefaultSpeedByte, DefaultSpeedByte)
       IN IF serial_port
          THEN /\ wire' = Written(t, frame)
               /\ thr' = [thr EXCEPT ![t] = [Sent(AfterStop(L), frame) EXCEPT
                             !.pc = "no_dn", !.slept = 0, !.dur = NormDuration(L)]]
          ELSE /\ wire' = wire
               /\ thr' = [thr EXCEPT ![t].pc = "sc_finally", ![t].raised = TRUE]
    /\ UNCHANGED << position, serial_port, last_request, cancel_event, motion_lock,
                    move_lock, stopper, config, tcp, aux >>

\* _stop_motor() after the down pulse
NormDownEnd(t) ==
    /\ thr[t].pc = "no_dn_end"
    /\ wire' = WireAfterStop(t)
    /\ thr' = [thr EXCEPT ![t] = [AfterStop(thr[t]) EXCEPT !.pc = "sc_zero"]]
    /\ UNCHANGED << position, serial_port, last_request, cancel_event, motion_lock,
                    move_lock, stopper, config, tcp, aux >>

\* 4) overdrive at AZ=0: only when not canceled, the target azimuth is 0 and
\* ZERO_OVERDRIVE_SEC > 0
ScZero(t) ==
    /\ thr[t].pc = "sc_zero"
    /\ LET L == thr[t]
           frame == MoveFrame(-1, 0, DefaultSpeedByte, DefaultSpeedByte)
       IN IF ~cancel_event /\ L.az_target = 0 /\ config.ZERO_OVERDRIVE_SEC > 0
          THEN IF serial_port
               THEN /\ wire' = Written(t, frame)
                    /\ thr' = [thr EXCEPT ![t] = [Sent(L, frame) EXCEPT
                                  !.pc = "zo", !.slept = 0,
                                  !.dur = config.ZERO_OVERDRIVE_SEC]]
               ELSE /\ wire' = wire
                    /\ thr' = [thr EXCEPT ![t].pc = "sc_finally", ![t].raised = TRUE]
          ELSE /\ wire' = wire
               /\ thr' = [thr EXCEPT ![t].pc = "sc_finally", ![t].saw_cancel = @ \/ cancel_event]
    /\ UNCHANGED << position, serial_port, last_request, cancel_event, motion_lock,
                    move_lock, stopper, config, tcp, aux >>

\* _stop_motor() after the overdrive pulse
ZeroEnd(t) ==
    /\ thr[t].pc = "zo_end"
    /\ wire' = WireAfterStop(t)
    /\ thr' = [thr EXCEPT ![t] = [AfterStop(thr[t]) EXCEPT !.pc = "sc_finally"]]
    /\ UNCHANGED << position, serial_port, last_request, cancel_event, motion_lock,
                    move_lock, stopper, config, tcp, aux >>

\* the final position of send_command's finally block: partials if the
\* signal is set, else the exact targets
AlwaysTarget(L, canceled) == << L.az_target, L.el_target >>
FinalPosition(L, canceled) ==
    IF canceled
    THEN << clamp(L.az_current + L.partial_az, AZ_MIN, AZ_MAX),
            clamp(L.el_current + L.partial_el, ELEVATION_MIN, ELEVATION_MAX) >>
    ELSE << L.az_target, L.el_target >>

\* finally: RotorState.set_position(final_az, final_el), then the final update
ScFinally(t) ==
    /\ thr[t].pc = "sc_finally"
    /\ position' = FinalPosition(thr[t], cancel_event)
    /\ thr' = [thr EXCEPT ![t] =
                 [EmittedFinal(thr[t], thr[t].return_msg) EXCEPT
                    !.pc = "sc_exit", !.saw_cancel = @ \/ cancel_event]]
    /\ UNCHANGED << serial_port, last_request, cancel_event, motion_lock,
                    move_lock, wire, stopper, config, tcp, aux >>

\* what a thread keeps once an operation has ended
Ended(L, pc) ==
    [Blank EXCEPT !.op = L.op, !.ret = L.ret, !.return_msg = L.return_msg,
                  !.raised = L.raised, !.step_i = L.step_i, !.pc = pc,
                  \* the enclosing run_demo_sequence goes on
                  !.stop_during = L.stop_during /\ pc \in {"demo_settle", "op_exit"}]

\* a thread that waited for the motion lock while another thread left it
Waited(u) == IF Queued(u) THEN [thr[u] EXCEPT !.queued = TRUE] ELSE thr[u]

\* leaving "with _motion_lock" in send_command: back to the caller, or on
\* through the callers when an exception is raised
ScExit(t) ==
    /\ thr[t].pc = "sc_exit"
    /\ motion_lock' = ReleasedMotion
    /\ LET L == thr[t]
       IN thr' = [u \in Threads |->
             IF u # t THEN Waited(u)
             ELSE IF L.ret = "tcp" THEN Ended(L, "mv_unlock")
             ELSE IF L.ret = "ui" THEN Ended(L, "done")
             ELSE IF L.ret = "demo" /\ ~L.raised
             THEN [Ended(L, "demo_settle") EXCEPT !.dur = SettleSec]
             ELSE Ended(L, "op_exit")]
    /\ UNCHANGED << position, serial_port, last_request, cancel_event,
                    move_lock, wire, stopper, config, tcp, aux >>

\* leaving "with _motion_lock" in nudge_*, calibrate and run_demo_sequence
OpExit(t) ==
    /\ thr[t].pc = "op_exit"
    /\ motion_lock' = ReleasedMotion
    /\ thr' = [u \in Threads |-> IF u # t THEN Waited(u) ELSE Ended(thr[t], "done")]
    /\ UNCHANGED << position, serial_port, last_request, cancel_event,
                    move_lock, wire, stopper, config, tcp, aux >>

\* the thread ends (or serves its next request)
Return(t) ==
    /\ thr[t].pc = "done"
    /\ thr' = [thr EXCEPT ![t] = Blank]
    /\ UNCHANGED << position, serial_port, last_request, cancel_event, motion_lock,
                    move_lock, wire, stopper, config, tcp, aux >>

\* ------------------------------------------------------------------------
\* _sleep_with_cancel(duration)
\* ------------------------------------------------------------------------
\* where each timed wait continues
AfterSleep(pc) ==
    CASE pc = "bk_sleep" -> "bk_stop"
      [] pc = "mv_both" -> "mv_both_end"
      [] pc = "mv_rest_az" -> "mv_rest_az_end"
      [] pc = "mv_rest_el" -> "mv_rest_el_end"
      [] pc = "mv_az" -> "mv_az_end"
      [] pc = "mv_el" -> "mv_el_end"
      [] pc = "no_up" -> "no_up_end"
      [] pc = "no_dn" -> "no_dn_end"
      [] pc = "zo" -> "zo_end"
      [] pc = "nz_sleep" -> "nz_end"
      [] pc = "cal_sleep" -> "cal_slept"
      [] pc = "demo_settle" -> "demo_loop"

SleepPcs == {"bk_sleep", "mv_both", "mv_rest_az", "mv_rest_el", "mv_az", "mv_el",
             "no_up", "no_dn", "zo", "nz_sleep", "cal_sleep", "demo_settle"}

\* the length of one sleep of the loop: min(0.05, remaining)
WholeWait(remaining) == remaining
Increment(remaining) == Min(PollInc, remaining)

\* one pass of the loop: the signal is not set, time.sleep(min(0.05, remaining))
SleepChunk(t) ==
    /\ thr[t].pc \in SleepPcs
    /\ thr[t].slept < thr[t].dur
    /\ ~cancel_event
    /\ LET L == thr[t]
           step == Increment(L.dur - L.slept)
       IN thr' = [thr EXCEPT
             ![t].slept = @ + step,
             ![t].elapsed = @ + step,
             ![t].drive_az = IF L.pc \in {"mv_both", "mv_rest_az", "mv_az"} THEN @ + step ELSE @,
             ![t].drive_el = IF L.pc \in {"mv_both", "mv_rest_el", "mv_el"} THEN @ + step ELSE @]
    /\ UNCHANGED << position, serial_port, last_request, cancel_event, motion_lock,
                    move_lock, wire, stopper, config, tcp, aux >>

\* the loop ends: the time is up, or the signal is set (break)
SleepExit(t) ==
    /\ thr[t].pc \in SleepPcs
    /\ thr[t].slept >= thr[t].dur \/ cancel_event
    /\ thr' = [thr EXCEPT ![t].pc = AfterSleep(thr[t].pc),
                          ![t].saw_cancel = @ \/ (thr[t].slept < thr[t].dur)]
    /\ UNCHANGED << position, serial_port, last_request, cancel_event, motion_lock,
                    move_lock, wire, stopper, config, tcp, aux >>

\* ------------------------------------------------------------------------
\* nudge_azimuth / nudge_elevation
\* ------------------------------------------------------------------------
\* peltrack.control, actions "nudge_*": nudge_azimuth(d, secs) or
\* nudge_elevation(d, secs)
Nudge(t, op, d, secs) ==
    /\ thr[t].pc = "idle"
    /\ thr' = [thr EXCEPT ![t] = [Blank EXCEPT
                 !.op = op, !.pc = "nz_lock", !.ret = "ui", !.dir = d, !.dur = secs]]
    /\ UNCHANGED << position, serial_port, last_request, cancel_event, motion_lock,
                    move_lock, wire, stopper, config, tcp, aux >>

\* with _motion_lock
NzLock(t) ==
    /\ thr[t].pc = "nz_lock"
    /\ CanAcquireMotion(t)
    /\ motion_lock' = AcquiredMotion(t)
    /\ thr' = [thr EXCEPT ![t].pc = "nz_clear"]
    /\ UNCHANGED << position, serial_port, last_request, cancel_event, move_lock,
                    wire, stopper, config, tcp, aux >>

\* _cancel_event.clear(); update_callback({"busy": True})
NzClear(t) ==
    /\ thr[t].pc = "nz_clear"
    /\ cancel_event' = Cleared
    /\ thr' = [thr EXCEPT ![t] = [AtClear(thr[t]) EXCEPT
                  !.pc = "nz_send", !.pos_before = position, !.upd_busy = "true"]]
    /\ UNCHANGED << position, serial_port, last_request, motion_lock, move_lock,
                    wire, stopper, config, tcp, aux >>

\* send_pelco_d(0x00, <direction bit>, ...): raises without a serial port
NzSend(t) ==
    /\ thr[t].pc = "nz_send"
    /\ LET L == thr[t]
           frame == IF L.op = "nudge_azimuth"
                    THEN MoveFrame(L.dir, 0, DefaultSpeedByte, DefaultSpeedByte)
                    ELSE MoveFrame(0, L.dir, DefaultSpeedByte, DefaultSpeedByte)
       IN IF serial_port
          THEN /\ wire' = Written(t, frame)
               /\ thr' = [thr EXCEPT ![t] = [Sent(L, frame) EXCEPT
                             !.pc = "nz_sleep", !.slept = 0]]
          ELSE /\ wire' = wire
               /\ thr' = [thr EXCEPT ![t].pc = "op_exit", ![t].raised = TRUE]
    /\ UNCHANGED << position, serial_port, last_request, cancel_event, motion_lock,
                    move_lock, stopper, config, tcp, aux >>

\* _stop_motor(); moved = direction * speed * slept; set_position with the
\* nudged axis clamped; update_callback({"busy": False, "msg": msg})
NzEnd(t) ==
    /\ thr[t].pc = "nz_end"
    /\ LET L == thr[t]
       IN /\ wire' = WireAfterStop(t)
          /\ position' =
                IF L.op = "nudge_azimuth"
                THEN << clamp(position[1] + Travel(L.dir, az_speed, L.slept), AZ_MIN, AZ_MAX),
                        position[2] >>
                ELSE << position[1],
                        clamp(position[2] + Travel(L.dir, << ELEVATION_SPEED_DPS, 1 >>, L.slept),
                              ELEVATION_MIN, ELEVATION_MAX) >>
          /\ thr' = [thr EXCEPT ![t] = [AfterStop(L) EXCEPT
                        !.pc = "op_exit", !.return_msg = "Nudged",
                        !.upd_busy = "false", !.upd_msg = "Nudged"]]
    /\ UNCHANGED << serial_port, last_request, cancel_event, motion_lock,
                    move_lock, stopper, config, tcp, aux >>

\* ------------------------------------------------------------------------
\* calibrate
\* ------------------------------------------------------------------------
\* peltrack.control, action "calibrate": a background thread runs calibrate
Calibrate(t) ==
    /\ thr[t].pc = "idle"
    /\ thr' = [thr EXCEPT ![t] = [Blank EXCEPT
                 !.op = "calibrate", !.pc = "cal_lock", !.ret = "ui"]]
    /\ UNCHANGED << position, serial_port, last_request, cancel_event, motion_lock,
                    move_lock, wire, stopper, config, tcp, aux >>

\* with _motion_lock
CalLock(t) ==
    /\ thr[t].pc = "cal_lock"
    /\ CanAcquireMotion(t)
    /\ motion_lock' = AcquiredMotion(t)
    /\ thr' = [thr EXCEPT ![t].pc = "cal_clear"]
    /\ UNCHANGED << position, serial_port, last_request, cancel_event, move_lock,
                    wire, stopper, config, tcp, aux >>

\* calibrate._emit_progress: pct = 1.0 if total_s <= 0
\* else max(0.0, min(1.0, elapsed_s / total_s)), as a fraction
Pct(elapsed_s, total_s) ==
    IF total_s <= 0 THEN << 1, 1 >>
    ELSE << Max(0, Min(total_s, elapsed_s)), total_s >>

\* the value of the canceled update:
\* max(0.0, min(1.0, elapsed / total_secs if total_secs else 0.0))
CanceledPct(elapsed_s, total_s) ==
    IF total_s = 0 THEN << 0, 1 >>
    ELSE << Max(0, Min(total_s, elapsed_s)), total_s >>

\* the stage labels passed to _sleep_with_ticks
StageLabel(stage) ==
    IF stage = 1 THEN "moving fully down"
    ELSE IF stage = 2 THEN "tilting up"
    ELSE "rotating azimuth fully left"

\* the locals of a thread after update_callback(payload)
Emitted(L, busy, stage, pct) ==
    [L EXCEPT !.upd_busy = busy, !.upd_stage = stage, !.upd_progress = pct]

\* _cancel_event.clear(); the "starting" update; elapsed = 0.0;
\* canceled = False
CalClear(t) ==
    /\ thr[t].pc = "cal_clear"
    /\ cancel_event' = Cleared
    /\ thr' = [thr EXCEPT ![t] =
                 [Emitted(AtClear(thr[t]), "true", "starting", << 0, 1 >>) EXCEPT
                    !.pc = "cal_stage", !.stage = 1, !.canceled = FALSE,
                    !.cal_elapsed = 0, !.pos_before = position]]
    /\ UNCHANGED << position, serial_port, last_request, motion_lock, move_lock,
                    wire, stopper, config, tcp, aux >>

\* the frame and the duration of each stage: down_time, up_secs, az_time
StageFrame(stage) ==
    IF stage = 1 THEN MoveFrame(0, -1, DefaultSpeedByte, DefaultSpeedByte)
    ELSE IF stage = 2 THEN MoveFrame(0, 1, DefaultSpeedByte, DefaultSpeedByte)
    ELSE MoveFrame(-1, 0, DefaultSpeedByte, DefaultSpeedByte)

StageSecs(stage) ==
    IF stage = 1 THEN Max(0, CALIBRATE_DOWN_DURATION_SEC)
    ELSE IF stage = 2 THEN CALIBRATE_UP_TRAVEL_DEGREES \div ELEVATION_SPEED_DPS
    ELSE Max(0, CALIBRATE_AZ_LEFT_DURATION_SEC)

\* total_secs
TotalSecs == StageSecs(1) + StageSecs(2) + StageSecs(3)

\* the elapsed time a tick reports: elapsed_so_far + slept_total
PerStage(elapsed_so_far, slept_total) == slept_total
Cumulative(elapsed_so_far, slept_total) == elapsed_so_far + slept_total

\* _pelco_move_axes of the stage, then _sleep_with_ticks begins:
\* remaining = duration, slept_total = 0, the immediate tick
CalStage(t) ==
    /\ thr[t].pc = "cal_stage"
    /\ LET L == thr[t]
       IN IF serial_port
          THEN /\ wire' = Written(t, StageFrame(L.stage))
               /\ thr' = [thr EXCEPT ![t] =
                            [Emitted(Sent(L, StageFrame(L.stage)), "absent",
                                     StageLabel(L.stage),
                                     Pct(Cumulative(L.cal_elapsed, 0), TotalSecs)) EXCEPT
                               !.pc = "cal_tick", !.remaining = StageSecs(L.stage),
                               !.slept_total = 0]]
          ELSE /\ wire' = wire
               /\ thr' = [thr EXCEPT ![t].pc = "op_exit", ![t].raised = TRUE]
    /\ UNCHANGED << position, serial_port, last_request, cancel_event, motion_lock,
                    move_lock, stopper, config, tcp, aux >>

\* _sleep_with_ticks: while remaining > 0 and not _cancel_event.is_set():
\* step = min(interval, remaining); _sleep_with_cancel(step)
CalTick(t) ==
    /\ thr[t].pc = "cal_tick"
    /\ LET L == thr[t]
       IN thr' = [thr EXCEPT ![t] =
             IF L.remaining > 0 /\ ~cancel_event
             THEN [L EXCEPT !.pc = "cal_sleep", !.slept = 0,
                            !.dur = Min(TickInterval, L.remaining)]
             ELSE [L EXCEPT !.pc = "cal_stop",
                            !.saw_cancel = @ \/ (L.remaining > 0 /\ cancel_event)]]
    /\ UNCHANGED << position, serial_port, last_request, cancel_event, motion_lock,
                    move_lock, wire, stopper, config, tcp, aux >>

\* slept_total += actually_slept; remaining -= actually_slept; the tick;
\* if actually_slept <= 0: break
CalSlept(t) ==
    /\ thr[t].pc = "cal_slept"
    /\ LET L == thr[t]
       IN thr' = [thr EXCEPT ![t] =
             [Emitted(L, "absent", StageLabel(L.stage),
                      Pct(Cumulative(L.cal_elapsed, L.slept_total + L.slept), TotalSecs)) EXCEPT
                !.slept_total = @ + L.slept,
                !.remaining = @ - L.slept,
                !.pc = IF L.slept <= 0 THEN "cal_stop" ELSE "cal_tick"]]
    /\ UNCHANGED << position, serial_port, last_request, cancel_event, motion_lock,
                    move_lock, wire, stopper, config, tcp, aux >>

\* if _cancel_event.is_set(): canceled = True
NeverCanceled == FALSE
CanceledNow == cancel_event

\* the stage that follows an uncanceled stage
SkipStage(stage) == stage + 2
NextStage(stage) == stage + 1

\* the reference position of a completed calibration
NoReference == position
Reference == << 0, 90 >>

\* elapsed += slept; _stop_motor(); if _cancel_event.is_set(): canceled =
\* True; then the next stage, the canceled update and return, or
\* set_position(0.0, 90.0), the complete update and the final return
CalStop(t) ==
    /\ thr[t].pc = "cal_stop"
    /\ LET L == [AfterStop(thr[t]) EXCEPT !.cal_elapsed = @ + thr[t].slept_total]
       IN /\ wire' = WireAfterStop(t)
          /\ IF CanceledNow
             THEN /\ thr' = [thr EXCEPT ![t] =
                               [Emitted(L, "false", "canceled",
                                        CanceledPct(L.cal_elapsed, TotalSecs)) EXCEPT
                                  !.pc = "op_exit", !.canceled = TRUE, !.saw_cancel = TRUE,
                                  !.return_msg = "Calibration canceled."]]
                  /\ position' = position
             ELSE IF L.stage < 3
             THEN /\ thr' = [thr EXCEPT ![t] = [L EXCEPT
                                !.pc = "cal_stage", !.stage = NextStage(L.stage)]]
                  /\ position' = position
             ELSE /\ thr' = [thr EXCEPT ![t] =
                               [Emitted(L, "false", "complete", << 1, 1 >>) EXCEPT
                                  !.pc = "op_exit",
                                  !.return_msg = "Calibration complete."]]
                  /\ position' = Reference
    /\ UNCHANGED << serial_port, last_request, cancel_event, motion_lock,
                    move_lock, stopper, config, tcp, aux >>

\* ------------------------------------------------------------------------
\* run_demo_sequence
\* ------------------------------------------------------------------------
\* peltrack.control, action "demo": a background thread runs run_demo_sequence
Demo(t) ==
    /\ thr[t].pc = "idle"
    /\ thr' = [thr EXCEPT ![t] = [Blank EXCEPT
                 !.op = "run_demo_sequence", !.pc = "demo_lock", !.ret = "ui"]]
    /\ UNCHANGED << position, serial_port, last_request, cancel_event, motion_lock,
                    move_lock, wire, stopper, config, tcp, aux >>

\* with _motion_lock
DemoLock(t) ==
    /\ thr[t].pc = "demo_lock"
    /\ CanAcquireMotion(t)
    /\ motion_lock' = AcquiredMotion(t)
    /\ thr' = [thr EXCEPT ![t].pc = "demo_clear"]
    /\ UNCHANGED << position, serial_port, last_request, cancel_event, move_lock,
                    wire, stopper, config, tcp, aux >>

\* _cancel_event.clear()
DemoClear(t) ==
    /\ thr[t].pc = "demo_clear"
    /\ cancel_event' = Cleared
    /\ thr' = [thr EXCEPT ![t] = [AtClear(thr[t]) EXCEPT
                  !.pc = "demo_loop", !.step_i = 1]]
    /\ UNCHANGED << position, serial_port, last_request, motion_lock, move_lock,
                    wire, stopper, config, tcp, aux >>

\* for az, el in steps: if _cancel_event.is_set(): break;
\* send_command(az, el); after the loop: send_command(0, 90)
DemoLoop(t) ==
    /\ thr[t].pc = "demo_loop"
    /\ LET L == thr[t]
       IN thr' = [thr EXCEPT ![t] =
             IF L.step_i <= Len(DemoSteps) /\ ~cancel_event
             THEN [L EXCEPT !.pc = "sc_lock", !.ret = "demo",
                            !.req_az = DemoSteps[L.step_i][1],
                            !.req_el = DemoSteps[L.step_i][2],
                            !.step_i = @ + 1]
             ELSE [L EXCEPT !.pc = "sc_lock", !.ret = "demo_final",
                            !.req_az = 0, !.req_el = 90,
                            !.saw_cancel = @ \/ (L.step_i <= Len(DemoSteps))]]
    /\ UNCHANGED << position, serial_port, last_request, cancel_event, motion_lock,
                    move_lock, wire, stopper, config, tcp, aux >>

\* ------------------------------------------------------------------------
\* Next-state relations
\* ------------------------------------------------------------------------
\* the steps of send_command and of the timed waits
ScStep(t) ==
    \/ ScLock(t)
    \/ ScClear(t)
    \/ ScBegin(t)
    \/ BreakawayBegin(t)
    \/ BreakawayStop(t)
    \/ BreakawayCheck(t)
    \/ MoveBegin(t)
    \/ MoveBothEnd(t)
    \/ MoveRestEnd(t)
    \/ MoveSingleEnd(t)
    \/ ScNorm(t)
    \/ ScZero(t)
    \/ ScFinally(t)
    \/ ScExit(t)
    \/ SleepChunk(t)
    \/ SleepExit(t)

\* the steps of the normalization pulses
NormStep(t) == NormUpEnd(t) \/ NormDownEnd(t) \/ ZeroEnd(t)

\* the steps of nudge_azimuth, nudge_elevation and calibrate
UiOpStep(t) ==
    \/ NzLock(t)
    \/ NzClear(t)
    \/ NzSend(t)
    \/ NzEnd(t)
    \/ CalLock(t)
    \/ CalClear(t)
    \/ CalStage(t)
    \/ CalTick(t)
    \/ CalSlept(t)
    \/ CalStop(t)
    \/ OpExit(t)

\* the steps of run_demo_sequence
DemoStep(t) == DemoLock(t) \/ DemoClear(t) \/ DemoLoop(t)

\* One thread serves request after request of the web form and the TCP
\* server; stop() and init_serial() run beside it.
Next ==
    \/ StopSet
    \/ StopMotor
    \/ InitSerial
    \/ \E r \in UiRequests : UiSet(1, r[1], r[2])
    \/ \E r \in Requests : MoveAsync(1, r[1], r[2])
    \/ \E d \in {-1, 1}, secs \in NudgeDurations :
          Nudge(1, "nudge_azimuth", d, secs) \/ Nudge(1, "nudge_elevation", d, secs)
    \/ Calibrate(1)
    \/ MoveLockAcquire(1)
    \/ MoveLockRelease(1)
    \/ ScStep(1)
    \/ NormStep(1)
    \/ UiOpStep(1)
    \/ Return(1)

Spec == Init /\ [][Next]_vars

\* Two threads each run one motion operation, invoked at any time, beside
\* stop(); the serial port is open and the configuration is the first one.
ConcRequests == { << 90, 90 >> }

InitConc ==
    /\ Init
    /\ serial_port
    /\ config.EL_APPROACH_OVERSHOOT_DEG = 0

NextConc ==
    \/ StopSet
    \/ StopMotor
    \/ \E t \in Threads :
          \/ \E r \in ConcRequests : MoveAsync(t, r[1], r[2])
          \/ Nudge(t, "nudge_azimuth", 1, PollInc)
          \/ Nudge(t, "nudge_elevation", -1, PollInc)
          \/ Calibrate(t)
          \/ Demo(t)
          \/ MoveLockAcquire(t)
          \/ MoveLockRelease(t)
          \/ ScStep(t)
          \/ UiOpStep(t)
          \/ DemoStep(t)

SpecConc == InitConc /\ [][NextConc]_vars

\* ------------------------------------------------------------------------
\* Text of the TCP protocol
\* ------------------------------------------------------------------------
\* A byte is a string: the ASCII bytes are their characters ("LF" and "CR"
\* are the line feed and the carriage return), "C3" "A9" is the two-byte
\* UTF-8 encoding of one non-ASCII letter and "FF" is a byte no UTF-8 text
\* contains.  A text is a sequence of characters.
Digits == {"0", "1", "2", "3", "4", "5", "6", "7", "8", "9"}
DigitValue ==
    [d \in Digits |->
       CASE d = "0" -> 0 [] d = "1" -> 1 [] d = "2" -> 2 [] d = "3" -> 3
         [] d = "4" -> 4 [] d = "5" -> 5 [] d = "6" -> 6 [] d = "7" -> 7
         [] d = "8" -> 8 [] d = "9" -> 9]
\* str.strip(), str.split(): the whitespace characters
Whitespace == {" ", "LF", "CR"}

Tail2(q) == SubSeq(q, 3, Len(q))
From(q, i) == SubSeq(q, i, Len(q))

\* bytes.decode("utf-8") succeeds
RECURSIVE Decodable(_)
Decodable(data) ==
    IF data = << >> THEN TRUE
    ELSE IF Head(data) = "C3"
    THEN Len(data) >= 2 /\ data[2] = "A9" /\ Decodable(Tail2(data))
    ELSE Head(data) \notin {"A9", "FF"} /\ Decodable(Tail(data))

\* bytes.decode("utf-8") of decodable bytes
RECURSIVE decode(_)
decode(data) ==
    IF data = << >> THEN << >>
    ELSE IF Head(data) = "C3" THEN << "U+E9" >> \o decode(Tail2(data))
    ELSE << Head(data) >> \o decode(Tail(data))

\* str.replace(old, new) for single characters
replace(text, old, new) ==
    [i \in 1..Len(text) |-> IF text[i] = old THEN new ELSE text[i]]

\* chunk.replace("\r", "\n").replace(";", "\n")
Normalized(chunk) == replace(replace(chunk, "CR", "LF"), ";", "LF")

\* str.upper() on the letters the lines of the model contain
upper(text) ==
    [i \in 1..Len(text) |->
       CASE text[i] = "g" -> "G" [] text[i] = "e" -> "E" [] text[i] = "t" -> "T"
         [] text[i] = "p" -> "P" [] text[i] = "a" -> "A" [] text[i] = "z" -> "Z"
         [] text[i] = "l" -> "L" [] text[i] = "s" -> "S" [] text[i] = "o" -> "O"
         [] OTHER -> text[i]]

\* str.strip()
strip(text) ==
    LET keep == {i \in 1..Len(text) : text[i] \notin Whitespace}
    IN IF keep = {} THEN << >>
       ELSE SubSeq(text, CHOOSE i \in keep : \A j \in keep : i <= j,
                         CHOOSE i \in keep : \A j \in keep : j <= i)

\* str.split(): the maximal runs of non-whitespace characters
RECURSIVE split(_)
split(text) ==
    LET body == strip(text)
        gaps == {i \in 1..Len(body) : body[i] \in Whitespace}
    IN IF body = << >> THEN << >>
       ELSE IF gaps = {} THEN << body >>
       ELSE LET g == CHOOSE i \in gaps : \A j \in gaps : i <= j
            IN << SubSeq(body, 1, g - 1) >> \o split(From(body, g + 1))

\* str.startswith(prefix)
startswith(text, prefix) ==
    Len(text) >= Len(prefix) /\ SubSeq(text, 1, Len(prefix)) = prefix

\* str.index(sub), counted from 1; 0 when sub does not occur ("sub in text"
\* is false)
index(text, sub) ==
    LET at == {i \in 1..(Len(text) - Len(sub) + 1) :
                  SubSeq(text, i, i + Len(sub) - 1) = sub}
    IN IF at = {} THEN 0 ELSE CHOOSE i \in at : \A j \in at : i <= j

\* the value of a run of digits
RECURSIVE DigitsValue(_)
DigitsValue(ds) ==
    IF ds = << >> THEN 0
    ELSE DigitsValue(SubSeq(ds, 1, Len(ds) - 1)) * 10 + DigitValue[ds[Len(ds)]]

RECURSIVE Pow10(_)
Pow10(n) == IF n = 0 THEN 1 ELSE 10 * Pow10(n - 1)

\* float(text) for decimal numerals: optional sign, digits with at most one
\* point and at least one digit, surrounding whitespace ignored
Unsigned(text) ==
    LET body == strip(text)
    IN IF body # << >> /\ Head(body) \in {"-", "+"} THEN Tail(body) ELSE body

FloatOk(text) ==
    LET u == Unsigned(text)
        points == {i \in 1..Len(u) : u[i] = "."}
    IN /\ \A i \in 1..Len(u) : u[i] \in Digits \cup {"."}
       /\ Cardinality(points) <= 1
       /\ \E i \in 1..Len(u) : u[i] \in Digits

\* the value of float(text) as a fraction << numerator, denominator >>
float(text) ==
    LET body == strip(text)
        u == Unsigned(text)
        p == index(u, << "." >>)
        whole == IF p = 0 THEN u ELSE SubSeq(u, 1, p - 1)
        frac == IF p = 0 THEN << >> ELSE From(u, p + 1)
        sign == IF Head(body) = "-" THEN -1 ELSE 1
    IN << sign * (DigitsValue(whole) * Pow10(Len(frac)) + DigitsValue(frac)),
          Pow10(Len(frac)) >>

\* the result of a line that is no set-position command
None == << >>

\* EasyCommServer._parse_easycomm_command(command)
parse_easycomm_command(command) ==
    LET cmd == upper(strip(command))
        el_index == index(cmd, << "E", "L" >>)
        az_str == strip(SubSeq(cmd, 3, el_index - 1))
        el_str == strip(From(cmd, el_index + 2))
        parts == split(strip(Tail(cmd)))
    IN IF startswith(cmd, << "A", "Z" >>) /\ el_index # 0
       THEN IF FloatOk(az_str) /\ FloatOk(el_str)
            THEN << float(az_str), float(el_str) >>
            ELSE None
       ELSE IF startswith(cmd, << "P", " " >>)
       THEN IF Len(parts) >= 2 /\ FloatOk(parts[1]) /\ FloatOk(parts[2])
            THEN << float(parts[1]), float(parts[2]) >>
            ELSE None
       ELSE None

\* ------------------------------------------------------------------------
\* EasyCommServer: the accept loop and _handle_client
\* ------------------------------------------------------------------------
\* the byte streams a peer sends
\* "p 180 45\r\nGET\n"
HamlibThenGet ==
    << "p", " ", "1", "8", "0", " ", "4", "5", "CR", "LF", "G", "E", "T",
       "LF" >>
\* "AZ180.0 EL45.0;STOP\n"
EasycommThenStop ==
    << "A", "Z", "1", "8", "0", ".", "0", " ", "E", "L", "4", "5", ".",
       "0", ";", "S", "T", "O", "P", "LF" >>
\* "AZEL 180 45\n"
AzelSpelling ==
    << "A", "Z", "E", "L", " ", "1", "8", "0", " ", "4", "5", "LF" >>
\* "GARBAGE\nGET\n"
GarbageThenGet ==
    << "G", "A", "R", "B", "A", "G", "E", "LF", "G", "E", "T", "LF" >>
\* "GET\n<C3 A9>\n"
GetThenLetter ==
    << "G", "E", "T", "LF", "C3", "A9", "LF" >>
\* "GE<FF>T\n"
GetWithBadByte ==
    << "G", "E", "FF", "T", "LF" >>
\* "GET\n"
JustGet ==
    << "G", "E", "T", "LF" >>
\* "P 180 45;P 90 45\n"
TwoMoves ==
    << "P", " ", "1", "8", "0", " ", "4", "5", ";", "P", " ", "9", "0", " ",
       "4", "5", "LF" >>

Streams ==
    { HamlibThenGet, EasycommThenStop, AzelSpelling, GarbageThenGet,
      GetThenLetter, GetWithBadByte, TwoMoves }

\* what the peer of each connection sends
StreamsOf(c) == IF c = 1 THEN Streams ELSE { JustGet }

\* the state of the motion core
motion == << position, serial_port, last_request, cancel_event, motion_lock,
             move_lock, wire, thr, stopper, config >>

\* the payloads of _sendline
OkReply == [kind |-> "OK", az |-> 0, el |-> 0]
ErrReply == [kind |-> "ERR", az |-> 0, el |-> 0]
\* a position line that mixes two writes: the azimuth of the stored pair
\* with the elevation the process started with
HalfApplied == [kind |-> "AZEL", az |-> position[1], el |-> 0]
\* f"AZ{az:.1f} EL{el:.1f}" of get_position()
PositionReply == [kind |-> "AZEL", az |-> position[1], el |-> position[2]]

\* while "\n" in buffer: line, buffer = buffer.split("\n", 1); line.strip()
HasLine(buffer) == index(buffer, << "LF" >>) # 0
FirstLine(buffer) == strip(SubSeq(buffer, 1, index(buffer, << "LF" >>) - 1))
Rest(buffer) == From(buffer, index(buffer, << "LF" >>) + 1)

\* the inner loop goes on, or the handler is back at recv
AfterLine(buffer) == IF HasLine(buffer) THEN "lines" ELSE "recv"

\* the handler thread of connection c runs: Thread.start() has returned
\* without waiting for the thread it started
RunsAfterMoves(c) ==
    conn[c].state = "open" /\ \A t \in Threads : thr[t].pc \in {"idle", "done"}
Runs(c) == conn[c].state = "open"

\* the handler is about to handle a line whose upper-cased text is cmd_u
AtLine(c) == Runs(c) /\ conn[c].pc = "lines"
cmd_u(c) == upper(FirstLine(conn[c].buffer))

\* the locals of the handler after it handled the first line of the buffer
Handled(C, result) ==
    [C EXCEPT !.buffer = Rest(C.buffer),
              !.pc = AfterLine(Rest(C.buffer)),
              !.last = [what |-> "line", line |-> FirstLine(C.buffer),
                        result |-> result]]
Replied(C, reply) == [C EXCEPT !.replies = Append(@, reply)]

\* EasyCommServer._run: bind and listen succeeded
StartServer ==
    /\ ~listening
    /\ listening' = TRUE
    /\ UNCHANGED << motion, conn, aux >>

\* EasyCommServer._run: accept() returns a client and its handler thread
\* starts with an empty buffer
Accept(c, s) ==
    /\ listening
    /\ conn[c].state = "new"
    /\ conn' = [conn EXCEPT ![c] = [NoConn EXCEPT !.state = "open", !.stream = s]]
    /\ UNCHANGED << motion, listening, aux >>

\* what an undecodable chunk leaves of the buffer (continue)
Dropped(buffer) == << >>
Retained(buffer) == buffer

\* data = client_socket.recv(1024) returns the next k bytes; an undecodable
\* chunk is answered with ERR, a decoded one is appended to the buffer with
\* its separators normalized
Recv(c, k) ==
    /\ Runs(c)
    /\ conn[c].pc = "recv"
    /\ k \in 1..(Len(conn[c].stream) - conn[c].off)
    /\ LET C == conn[c]
           data == SubSeq(C.stream, C.off + 1, C.off + k)
       IN conn' = [conn EXCEPT ![c] =
             IF ~Decodable(data)
             THEN [Replied(C, ErrReply) EXCEPT
                     !.off = @ + k,
                     !.buffer = Retained(@),
                     !.last = [what |-> "chunk", line |-> data, result |-> None]]
             ELSE [C EXCEPT
                     !.off = @ + k,
                     !.buffer = @ \o Normalized(decode(data)),
                     !.pc = AfterLine(C.buffer \o Normalized(decode(data)))]]
    /\ UNCHANGED << motion, listening, aux >>

\* if not line: continue
SkipBlank(c) ==
    /\ AtLine(c)
    /\ FirstLine(conn[c].buffer) = << >>
    /\ conn' = [conn EXCEPT ![c] = [@ EXCEPT !.buffer = Rest(@),
                                             !.pc = AfterLine(Rest(conn[c].buffer))]]
    /\ UNCHANGED << motion, listening, aux >>

\* cmd_u == "GET": get_position() and the position line
HandleGet(c) ==
    /\ AtLine(c)
    /\ cmd_u(c) = << "G", "E", "T" >>
    /\ conn' = [conn EXCEPT ![c] = Replied(Handled(@, None), PositionReply)]
    /\ UNCHANGED << motion, listening, aux >>

\* cmd_u == "STOP": pelco_stop() begins, _cancel_event.set()
HandleStop(c) ==
    /\ AtLine(c)
    /\ cmd_u(c) = << "S", "T", "O", "P" >>
    /\ SetSignal
    /\ conn' = [conn EXCEPT ![c] = [Handled(@, None) EXCEPT !.pc = "stop"]]
    /\ UNCHANGED listening

\* pelco_stop() ends with _stop_motor(); then _sendline("OK")
StopReplied(c) ==
    /\ Runs(c)
    /\ conn[c].pc = "stop"
    /\ WriteStop
    /\ conn' = [conn EXCEPT ![c] = [Replied(@, OkReply) EXCEPT
                                      !.pc = AfterLine(conn[c].buffer)]]
    /\ UNCHANGED listening

\* the requested degrees of a parsed value (the lines of the model carry
\* whole degrees)
Degrees(value) == value[1] \div value[2]

\* result is not None: the move is started on a new thread, then
\* _sendline("OK")
HandleSet(c) ==
    /\ AtLine(c)
    /\ FirstLine(conn[c].buffer) # << >>
    /\ cmd_u(c) \notin { << "G", "E", "T" >>, << "S", "T", "O", "P" >> }
    /\ LET result == parse_easycomm_command(FirstLine(conn[c].buffer))
       IN /\ result # None
          /\ \E t \in Threads :
                /\ \A u \in Threads : u < t => thr[u].pc # "idle"
                /\ StartMove(t, Degrees(result[1]), Degrees(result[2]))
          /\ conn' = [conn EXCEPT ![c] = Replied(Handled(@, result), OkReply)]
    /\ UNCHANGED listening

\* the state of a connection answered with ERR
ClosedOnError == "closed"
AfterError == "open"

\* result is None: _sendline("ERR")
HandleErr(c) ==
    /\ AtLine(c)
    /\ FirstLine(conn[c].buffer) # << >>
    /\ cmd_u(c) \notin { << "G", "E", "T" >>, << "S", "T", "O", "P" >> }
    /\ parse_easycomm_command(FirstLine(conn[c].buffer)) = None
    /\ conn' = [conn EXCEPT ![c] = [Replied(Handled(@, None), ErrReply) EXCEPT
                                      !.state = AfterError]]
    /\ UNCHANGED << motion, listening, aux >>

\* the connections after the handler of c left its loop
AllClosed(c) == [d \in Conns |-> [conn[d] EXCEPT !.state = "closed", !.buffer = << >>]]
OneClosed(c) == [conn EXCEPT ![c] = [@ EXCEPT !.state = "closed", !.buffer = << >>]]

\* recv returns b"" (the peer closed), or raises socket.timeout or OSError:
\* break, and "with client_socket" closes the socket
Close(c) ==
    /\ Runs(c)
    /\ conn[c].pc = "recv"
    /\ conn' = OneClosed(c)
    /\ UNCHANGED << motion, listening, aux >>

\* the steps of one connection handler
HandlerStep(c) ==
    \/ \E k \in 1..Len(conn[c].stream) : Recv(c, k)
    \/ SkipBlank(c)
    \/ HandleGet(c)
    \/ HandleStop(c)
    \/ StopReplied(c)
    \/ HandleSet(c)
    \/ HandleErr(c)

\* The TCP server with two connections beside the moves it dispatched; the
\* serial port is open and the configuration is the first one.
InitServer == InitConc

NextServer ==
    \/ StartServer
    \/ \E c \in Conns :
          \/ \E s \in StreamsOf(c) : Accept(c, s)
          \/ HandlerStep(c)
          \/ Close(c)
    \/ \E t \in Threads :
          \/ MoveLockAcquire(t)
          \/ MoveLockRelease(t)
          \/ ScStep(t)

SpecServer == InitServer /\ [][NextServer]_vars

\* ------------------------------------------------------------------------
\* Pelco-D query tool (tools/pelco_query_test.py)
\* ------------------------------------------------------------------------
\* the values of a byte
Bytes == 0 .. 255
\* the arguments build_frame is called with: bytes, and one value that is
\* out of the byte range
ArgChoices == { 0, 255, 256 }

\* build_frame raised ValueError
ValueError == << >>

\* build_frame(addr, c1, c2, d1, d2): the 7 bytes, ck = sum & 0xFF
build_frame(addr, c1, c2, d1, d2) ==
    IF \E val \in { addr, c1, c2, d1, d2 } : ~(0 <= val /\ val <= 255)
    THEN ValueError
    ELSE << 255, addr, c1, c2, d1, d2, (addr + c1 + c2 + d1 + d2) % 256 >>

\* a check of the sum alone
SumOnly(pkt) ==
    Len(pkt) = 7 /\ (pkt[2] + pkt[3] + pkt[4] + pkt[5] + pkt[6]) % 256 = pkt[7]

\* verify_checksum(pkt): 7 bytes, the first 0xFF, the last the sum & 0xFF
verify_checksum(pkt) ==
    IF Len(pkt) # 7 \/ pkt[1] # 255
    THEN FALSE
    ELSE (pkt[2] + pkt[3] + pkt[4] + pkt[5] + pkt[6]) % 256 = pkt[7]

\* a frame is built; out-of-range arguments leave no packet
BuildFrame(addr, c1, c2, d1, d2) ==
    /\ tool = NoPacket
    /\ tool' = IF build_frame(addr, c1, c2, d1, d2) = ValueError
               THEN [NoPacket EXCEPT !.verdict = "ValueError"]
               ELSE [NoPacket EXCEPT !.pkt = build_frame(addr, c1, c2, d1, d2)]
    /\ UNCHANGED << motion, tcp, disk, cfgop, locks >>

\* byte i of the frame arrives as v instead (the checksum is not recomputed)
ChangeByte(i, v) ==
    /\ tool.pkt # << >>
    /\ tool.changed = 0
    /\ tool.verdict = "none"
    /\ i \in 1 .. Len(tool.pkt)
    /\ v \in Bytes \ { tool.pkt[i] }
    /\ tool' = [tool EXCEPT !.pkt[i] = v, !.changed = i]
    /\ UNCHANGED << motion, tcp, disk, cfgop, locks >>

\* read_packet: verify_checksum(candidate)
Verify ==
    /\ tool.pkt # << >>
    /\ tool.verdict = "none"
    /\ tool' = [tool EXCEPT !.verdict = IF verify_checksum(tool.pkt) THEN "true" ELSE "false"]
    /\ UNCHANGED << motion, tcp, disk, cfgop, locks >>

\* The query tool builds one frame, which is verified as built or with one
\* byte changed; the motion core and the TCP server are at rest.
InitTool == InitConc

NextTool ==
    \/ \E addr, c1, c2, d1, d2 \in ArgChoices : BuildFrame(addr, c1, c2, d1, d2)
    \/ \E i \in 1 .. 7, v \in Bytes : ChangeByte(i, v)
    \/ Verify

SpecTool == InitTool /\ [][NextTool]_vars

\* ------------------------------------------------------------------------
\* RotorState: set_config / save_config / get_config (state.py)
\* ------------------------------------------------------------------------
\* the keys set_config is called with, the values, and the keys read
SetKeys == { "EL_APPROACH_OVERSHOOT_DEG", "ZERO_OVERDRIVE_SEC" }
ConfigValues == { 0, 45 }
GetKeys == SetKeys \cup { "EL_REFERENCE" }

\* get_config(key): _CONFIG.get(key, _DEFAULT_CONFIG.get(key))
get_config(key) ==
    IF key \in DOMAIN config THEN Found(config[key])
    ELSE IF key \in DOMAIN DEFAULT_CONFIG THEN Found(DEFAULT_CONFIG[key])
    ELSE NotFound

\* the motion core, but for _CONFIG
motion_but_config == << position, serial_port, last_request, cancel_event, motion_lock,
                        move_lock, wire, thr, stopper >>

\* set_config(key, value): with cls.lock: cls._CONFIG[key] = value, then
\* save_config()
SetConfig(key, value) ==
    /\ cfgop.pc = "idle"
    /\ config' = [config EXCEPT ![key] = value]
    /\ cfgop' = [cfgop EXCEPT !.pc = "open", !.key = key, !.value = value,
                              !.failed = FALSE]
    /\ UNCHANGED << motion_but_config, tcp, tool, disk, locks >>

\* open(tmp_path, "w") creates or truncates the temp file
InPlace(d) == [d EXCEPT !.file = [exists |-> TRUE, data |-> config, part |-> "empty"]]
Opened(d) == [d EXCEPT !.tmp = [exists |-> TRUE, data |-> config, part |-> "empty"]]

\* save_config: os.makedirs and open(tmp_path, "w"), or OSError
SaveOpen(ok) ==
    /\ cfgop.pc = "open"
    /\ IF ok
       THEN /\ disk' = Opened(disk)
            /\ cfgop' = [cfgop EXCEPT !.pc = "dump"]
       ELSE /\ disk' = disk
            /\ cfgop' = [cfgop EXCEPT !.pc = "cleanup"]
    /\ UNCHANGED << motion, tcp, tool, locks >>

\* json.dump(cls._CONFIG, f, ...) writes the text piece after piece, or
\* OSError; leaving the with block closes the file
SaveDump(ok) ==
    /\ cfgop.pc = "dump"
    /\ IF ok
       THEN /\ disk' = [disk EXCEPT !.tmp.part =
                           IF disk.tmp.exists /\ @ = "empty" THEN "partial" ELSE "complete"]
            /\ cfgop' = [cfgop EXCEPT !.pc =
                           IF disk.tmp.exists /\ disk.tmp.part = "empty"
                           THEN "dump" ELSE "replace"]
       ELSE /\ disk' = disk
            /\ cfgop' = [cfgop EXCEPT !.pc = "cleanup"]
    /\ UNCHANGED << motion, tcp, tool, locks >>

\* os.replace(tmp_path, path): the temp file takes the place of the config
\* file in one step
Replaced(d) == [file |-> d.tmp, tmp |-> NoFile]

\* os.replace, or OSError
SaveReplace(ok) ==
    /\ cfgop.pc = "replace"
    /\ IF ok
       THEN /\ disk' = Replaced(disk)
            /\ cfgop' = [cfgop EXCEPT !.pc = "idle"]
       ELSE /\ disk' = disk
            /\ cfgop' = [cfgop EXCEPT !.pc = "cleanup"]
    /\ UNCHANGED << motion, tcp, tool, locks >>

\* except OSError: remove the temp file if it exists (a failure to do so is
\* passed over), logging.error; set_config returns
SaveCleanup(ok) ==
    /\ cfgop.pc = "cleanup"
    /\ disk' = IF ok THEN [disk EXCEPT !.tmp = NoFile] ELSE disk
    /\ cfgop' = [cfgop EXCEPT !.pc = "idle", !.failed = TRUE]
    /\ UNCHANGED << motion, tcp, tool, locks >>

\* get_config(key) by a caller that holds cls.lock: no set_config runs
GetConfig(key) ==
    /\ cfgop.pc = "idle"
    /\ cfgop' = [cfgop EXCEPT !.got_key = key, !.got = get_config(key)]
    /\ UNCHANGED << motion, tcp, tool, disk, locks >>

\* Calls of set_config and get_config, one after the other, with every
\* file operation of save_config succeeding or failing.
NextConfig ==
    \/ \E key \in SetKeys, value \in ConfigValues : SetConfig(key, value)
    \/ \E ok \in BOOLEAN : SaveOpen(ok)
    \/ \E ok \in BOOLEAN : SaveDump(ok)
    \/ \E ok \in BOOLEAN : SaveReplace(ok)
    \/ \E ok \in BOOLEAN : SaveCleanup(ok)
    \/ \E key \in GetKeys : GetConfig(key)

SpecConfig == Init /\ [][NextConfig]_vars

\* ------------------------------------------------------------------------
\* The three locks: EasyCommServer._move_lock, _motion_lock, RotorState.lock
\* ------------------------------------------------------------------------
\* Each caller runs one operation at a time; of the operation only the locks
\* it takes are kept: the with blocks it enters, and inside the motion lock
\* the accesses to the state store (each one a with RotorState.lock) in the
\* order of the code, one access standing for each run of accesses of the
\* same kind.  What the accesses read and write is left to the other
\* specifications.
\* the caller of a state-store accessor outside the motion lock (the GET
\* handler of the TCP server, the web page)
Reader == StopCaller + 1
LockUsers == Threads \cup { StopCaller, Reader }

\* the nested send_command calls of one run_demo_sequence: one for each
\* step, and the final one
DemoCalls == Len(DemoSteps) + 1

\* the accesses to the state store of each operation, in order
Body(op) ==
    CASE op = "send_command" -> << "update_callback", "send_pelco_d", "set_position" >>
      [] op = "_move_async" -> << "update_callback", "send_pelco_d", "set_position" >>
      [] op = "nudge_azimuth" -> << "send_pelco_d", "get_position", "set_position" >>
      [] op = "calibrate" -> << "send_pelco_d", "update_callback", "set_position" >>
      [] op = "run_demo_sequence" -> << "update_callback" >>
      [] op = "stop" -> << "get_serial_port", "send_pelco_d" >>
      [] op = "get_position" -> << "get_position" >>

\* what run_demo_sequence does after its last send_command
After(op) == IF op = "run_demo_sequence" THEN << "update_callback" >> ELSE << >>

\* the operations each caller can run
OpsOf(u) ==
    IF u = StopCaller THEN { "stop" }
    ELSE IF u = Reader THEN { "get_position" }
    ELSE { "_move_async", "send_command", "nudge_azimuth", "calibrate", "run_demo_sequence" }

\* the operations that run inside "with _motion_lock"
MotionOps == { "_move_async", "send_command", "nudge_azimuth", "calibrate", "run_demo_sequence" }

\* threading.RLock: free, or already held by the caller
CanAcquireState(u) == state_lock.owner \in {0, u}

\* the locks a caller holds
HoldsState(u) == state_lock.owner = u
HoldsMotion(u) == motion_lock.owner = u
HoldsMove(u) == move_lock = u
HoldsAny(u) == HoldsState(u) \/ HoldsMotion(u) \/ HoldsMove(u)

\* an operation is invoked
Call(u, op) ==
    /\ lk[u].pc = "idle"
    /\ op \in OpsOf(u)
    /\ lk' = [lk EXCEPT ![u] =
                [op |-> op,
                 pc |-> IF op = "_move_async" THEN "move_lock"
                        ELSE IF op \in MotionOps THEN "motion_lock" ELSE "body",
                 todo |-> Body(op),
                 calls |-> IF op = "run_demo_sequence" THEN DemoCalls ELSE 0,
                 after |-> After(op)]]
    /\ UNCHANGED << position, serial_port, last_request, cancel_event, motion_lock,
                    move_lock, wire, thr, stopper, config, tcp, tool, disk, cfgop,
                    state_lock >>

\* _move_async: with self._move_lock
AcquireMove(u) ==
    /\ lk[u].pc = "move_lock"
    /\ move_lock = 0
    /\ move_lock' = u
    /\ lk' = [lk EXCEPT ![u].pc = "motion_lock"]
    /\ UNCHANGED << position, serial_port, last_request, cancel_event, motion_lock,
                    wire, thr, stopper, config, tcp, tool, disk, cfgop, state_lock >>

\* with _motion_lock
AcquireMotion(u) ==
    /\ lk[u].pc = "motion_lock"
    /\ CanAcquireMotion(u)
    /\ motion_lock' = AcquiredMotion(u)
    /\ lk' = [lk EXCEPT ![u].pc = "body"]
    /\ UNCHANGED << position, serial_port, last_request, cancel_event, move_lock,
                    wire, thr, stopper, config, tcp, tool, disk, cfgop, state_lock >>

\* with RotorState.lock (RotorState.lock is "with cls.lock" in the accessors)
AcquireState(u) ==
    /\ lk[u].pc = "body"
    /\ lk[u].todo # << >>
    /\ CanAcquireState(u)
    /\ state_lock' = [owner |-> u, count |-> state_lock.count + 1]
    /\ lk' = [lk EXCEPT ![u].pc = "state"]
    /\ UNCHANGED << position, serial_port, last_request, cancel_event, motion_lock,
                    move_lock, wire, thr, stopper, config, tcp, tool, disk, cfgop >>

\* the access, and the end of its with block
ReleaseState(u) ==
    /\ lk[u].pc = "state"
    /\ state_lock' = IF state_lock.count = 1 THEN [owner |-> 0, count |-> 0]
                     ELSE [owner |-> u, count |-> state_lock.count - 1]
    /\ lk' = [lk EXCEPT ![u].pc = "body", ![u].todo = Tail(@)]
    /\ UNCHANGED << position, serial_port, last_request, cancel_event, motion_lock,
                    move_lock, wire, thr, stopper, config, tcp, tool, disk, cfgop >>

\* run_demo_sequence calls send_command, which enters "with _motion_lock" again
NestedCall(u) ==
    /\ lk[u].pc = "body"
    /\ lk[u].todo = << >>
    /\ lk[u].calls > 0
    /\ lk' = [lk EXCEPT ![u].pc = "motion_lock", ![u].calls = @ - 1,
                        ![u].todo = Body("send_command")]
    /\ UNCHANGED << position, serial_port, last_request, cancel_event, motion_lock,
                    move_lock, wire, thr, stopper, config, tcp, tool, disk, cfgop,
                    state_lock >>

\* the end of "with _motion_lock": of a nested send_command, or of the operation
ReleaseMotion(u) ==
    /\ lk[u].pc = "body"
    /\ lk[u].todo = << >>
    /\ HoldsMotion(u)
    /\ motion_lock.count = 1 => lk[u].calls = 0 /\ lk[u].after = << >>
    /\ motion_lock' = ReleasedMotion
    /\ LET L == lk[u]
       IN lk' = [lk EXCEPT ![u] =
                IF motion_lock.count > 1
                THEN [L EXCEPT !.todo = IF L.calls = 0 THEN L.after ELSE << >>,
                               !.after = IF L.calls = 0 THEN << >> ELSE L.after]
                ELSE IF L.op = "_move_async" THEN [L EXCEPT !.pc = "move_unlock"]
                ELSE [op |-> "none", pc |-> "idle", todo |-> << >>, calls |-> 0,
                      after |-> << >>]]
    /\ UNCHANGED << position, serial_port, last_request, cancel_event,
                    move_lock, wire, thr, stopper, config, tcp, tool, disk, cfgop,
                    state_lock >>

\* the end of "with self._move_lock"
ReleaseMove(u) ==
    /\ lk[u].pc = "move_unlock"
    /\ move_lock' = 0
    /\ lk' = [lk EXCEPT ![u] = [op |-> "none", pc |-> "idle", todo |-> << >>,
                                calls |-> 0, after |-> << >>]]
    /\ UNCHANGED << position, serial_port, last_request, cancel_event, motion_lock,
                    wire, thr, stopper, config, tcp, tool, disk, cfgop, state_lock >>

\* stop() and the accessors return: they took no motion lock
Returns(u) ==
    /\ lk[u].pc = "body"
    /\ lk[u].todo = << >>
    /\ lk[u].op \notin MotionOps
    /\ lk' = [lk EXCEPT ![u] = [op |-> "none", pc |-> "idle", todo |-> << >>,
                                calls |-> 0, after |-> << >>]]
    /\ UNCHANGED << position, serial_port, last_request, cancel_event, motion_lock,
                    move_lock, wire, thr, stopper, config, tcp, tool, disk, cfgop,
                    state_lock >>

\* the steps of an operation that was invoked
LockStep(u) ==
    \/ AcquireMove(u)
    \/ AcquireMotion(u)
    \/ AcquireState(u)
    \/ ReleaseState(u)
    \/ NestedCall(u)
    \/ ReleaseMotion(u)
    \/ ReleaseMove(u)
    \/ Returns(u)

InitLocks == InitConc

NextLocks ==
    \E u \in LockUsers :
       \/ \E op \in OpsOf(u) : Call(u, op)
       \/ LockStep(u)

\* a caller that can take a step again and again does take one: a released
\* lock wakes a thread that waits for it
SpecLocks ==
    /\ InitLocks
    /\ [][NextLocks]_vars
    /\ \A u \in LockUsers : SF_vars(LockStep(u))

\* ------------------------------------------------------------------------
\* Properties
\* ------------------------------------------------------------------------
\* thread t is inside "with _motion_lock"
InsideMotionLock(t) ==
    /\ thr[t].pc \notin RestPcs \cup {"mv_wait", "nz_lock", "cal_lock", "demo_lock"}
    /\ thr[t].pc = "sc_lock" => thr[t].ret \in {"demo", "demo_final"}

\* thread t has passed the clear of its invocation and is still inside the lock
PastClear(t) == InsideMotionLock(t) /\ thr[t].pc \notin PendingPcs

\* thread t is in the body of send_command, past the clamp
InSendBody(t) ==
    thr[t].pc \in {"bk_begin", "bk_sleep", "bk_stop", "bk_check", "mv_begin",
                   "mv_both", "mv_both_end", "mv_rest_az", "mv_rest_az_end",
                   "mv_rest_el", "mv_rest_el_end", "mv_az", "mv_az_end",
                   "mv_el", "mv_el_end", "sc_norm", "no_up", "no_up_end",
                   "no_dn", "no_dn_end", "sc_zero", "zo", "zo_end",
                   "sc_finally", "sc_exit"}

\* send_command on thread t has run its finally block and is about to return
AtReturn(t) == thr[t].pc = "sc_exit"

\* v brought into [lo, hi]
Within(v, lo, hi) == IF v < lo THEN lo ELSE IF v > hi THEN hi ELSE v
\* x lies between a and b
Between(x, a, b) == (a <= x /\ x <= b) \/ (b <= x /\ x <= a)
\* the bytes of a stop frame: cmd1 = cmd2 = data1 = data2 = 0
StopBytes == << 255, DEVICE_ADDRESS, 0, 0, 0, 0, DEVICE_ADDRESS % 256 >>

\* C1: two motion operations on different threads are never inside the
\* motion lock together; a motion frame on the wire was written by an
\* operation that is still inside the lock, and an operation leaves the lock
\* with a stop frame as its last frame.  So every frame of the operation that
\* runs second is written after the final stop frame of the one that runs
\* first.
FramesNotInterleaved ==
    /\ \A t, u \in Threads : InsideMotionLock(t) /\ InsideMotionLock(u) => t = u
    /\ wire.frame \notin {<< >>, StopBytes} =>
          wire.by \in Threads /\ InsideMotionLock(wire.by)
    /\ \A t \in Threads : thr[t].pc \in {"sc_exit", "op_exit"} => thr[t].own_last # "move"

\* a thread that waited for the lock while the other thread ran its
\* operation now drives the device with a frame of its own
SecondOperationDrives ==
    \E t \in Threads :
       /\ thr[t].queued
       /\ thr[t].own_last = "move"
       /\ wire = [frame |-> wire.frame, by |-> t]
       /\ wire.frame # StopBytes

\* C2: a send_command during whose measured motion phase stop() was called
\* ends with the outcome "Move interrupted".
StoppedMoveIsInterrupted ==
    \A t \in Threads :
       AtReturn(t) /\ thr[t].stop_driving => thr[t].return_msg = "Move interrupted"

\* C3 as written: when stop() completes, the last frame written is a stop frame.
StopAlwaysWritesStopFrame ==
    [][stopper = "stop_motor" /\ stopper' = "idle" => wire'.frame = StopBytes]_vars

\* C3: stop() sets the cancellation signal and then, when a serial handle is
\* set, writes a stop frame; without a serial handle it writes nothing.  It
\* changes neither the stored position nor the config, so a second stop()
\* leaves the state the first one left.
StopEffect ==
    [][/\ stopper = "idle" /\ stopper' = "stop_motor" =>
             cancel_event' /\ wire' = wire /\ position' = position /\ config' = config
       /\ stopper = "stop_motor" /\ stopper' = "idle" =>
             /\ cancel_event' = cancel_event
             /\ position' = position
             /\ config' = config
             /\ IF serial_port
                THEN wire'.frame = StopBytes /\ wire'.by = StopCaller
                ELSE wire' = wire]_vars

\* stop() has completed with a serial handle set: the signal is set and the
\* last frame is its stop frame
StopCompleted ==
    /\ stopper = "idle"
    /\ cancel_event
    /\ serial_port
    /\ wire = [frame |-> StopBytes, by |-> StopCaller]
    /\ position # << 0, 0 >>

\* C4: every operation clears the signal once it holds the motion lock: while
\* an operation is past its clear the signal is set only if stop() was called
\* after that clear, and an operation observes a cancellation only in that case.
ClearedAtStart ==
    \A t \in Threads :
       /\ PastClear(t) /\ cancel_event => thr[t].stop_during
       /\ thr[t].saw_cancel => thr[t].stop_during

\* stop() was called while a send_command waited for the motion lock, and
\* the send_command then ran to completion without observing a cancellation
QueuedMoveSurvivesStop ==
    \E t \in Threads :
       /\ AtReturn(t)
       /\ thr[t].stop_queued
       /\ ~thr[t].saw_cancel
       /\ thr[t].return_msg = "Moved to"

\* C5: when send_command ends, the stored position is the clamped target if
\* no cancellation was observed, and otherwise the start position plus
\* direction x speed x time driven on each axis, brought into the limits; it
\* is a pair of numbers in every state.
FinalPositionRule ==
    /\ Len(position) = 2 /\ position[1] \in Int /\ position[2] \in Int
    /\ \A t \in Threads :
          AtReturn(t) =>
             LET L == thr[t]
             IN position =
                  IF L.saw_cancel
                  THEN << Within(L.az_current + Travel(az_dir(L), az_speed, L.drive_az),
                                 AZ_MIN, AZ_MAX),
                          Within(L.el_current + Travel(el_dir(L), el_speed_eff(L), L.drive_el),
                                 ELEVATION_MIN, ELEVATION_MAX) >>
                  ELSE << Within(L.req_az, AZ_MIN, AZ_MAX),
                          Within(L.req_el, ELEVATION_MIN, ELEVATION_MAX) >>

\* a canceled send_command ended strictly between its start and its target
CanceledMidFlight ==
    \E t \in Threads :
       /\ AtReturn(t)
       /\ thr[t].saw_cancel
       /\ thr[t].drive_az > 0
       /\ position[1] # thr[t].az_current
       /\ position[1] # thr[t].az_target

\* C6: when stop() was called during a send_command, the position stored at
\* its return differs from the start position by at most speed x elapsed
\* time on each axis and lies between the start position and the target.
StopBoundsTravel ==
    \A t \in Threads :
       AtReturn(t) /\ thr[t].stop_during /\ ~thr[t].raised =>
          LET L == thr[t]
          IN /\ Abs(position[1] - L.az_current) * az_speed[2] <= az_speed[1] * L.elapsed
             /\ Abs(position[2] - L.el_current) * el_speed_eff(L)[2]
                   <= el_speed_eff(L)[1] * L.elapsed
             /\ Between(position[1], L.az_current, L.az_target)
             /\ Between(position[2], L.el_current, L.el_target)

\* C7: the stored azimuth and elevation lie within the limits in every state.
PositionWithinLimits ==
    /\ AZ_MIN <= position[1] /\ position[1] <= AZ_MAX
    /\ ELEVATION_MIN <= position[2] /\ position[2] <= ELEVATION_MAX

\* C8: a send_command whose clamped target is the stored position returns
\* "No movement needed", leaves the position as it was and writes no frame,
\* with or without a serial handle.
NoOpMove ==
    \A t \in Threads :
       LET L == thr[t]
       IN AtReturn(t)
          /\ Within(L.req_az, AZ_MIN, AZ_MAX) = L.az_current
          /\ Within(L.req_el, ELEVATION_MIN, ELEVATION_MAX) = L.el_current
          => /\ L.return_msg = "No movement needed"
             /\ position = << L.az_current, L.el_current >>
             /\ L.own_last = "none"
             /\ ~L.raised

\* the no-op return without a serial handle
NoOpWithoutSerial ==
    \E t \in Threads :
       /\ AtReturn(t)
       /\ thr[t].return_msg = "No movement needed"
       /\ ~serial_port
       /\ wire = NoFrame

\* C9: in the body of send_command the target is the request brought into
\* the limits, the clamped flag tells whether the two differ, the durations
\* are those of the clamped target, and the request (400, 200) has the
\* target (360, 135) with the flag set.
ClampOnDispatch ==
    \A t \in Threads :
       InSendBody(t) =>
          LET L == thr[t]
          IN /\ L.az_target = Within(L.req_az, AZ_MIN, AZ_MAX)
             /\ L.el_target = Within(L.req_el, ELEVATION_MIN, ELEVATION_MAX)
             /\ L.was_clamped <=> (L.az_target # L.req_az \/ L.el_target # L.req_el)
             /\ L.pc = "mv_az" =>
                   L.dur * AZIMUTH_SPEED_DPS * TIME_SAFETY_DEN
                      = Abs(Within(L.req_az, AZ_MIN, AZ_MAX) - L.az_current) * TIME_SAFETY_NUM
             /\ (L.req_az = 400 /\ L.req_el = 200) =>
                   L.az_target = 360 /\ L.el_target = 135 /\ L.was_clamped

\* the request (400, 200) is being driven towards (360, 135)
ClampedRequestDriven ==
    \E t \in Threads :
       /\ thr[t].pc = "mv_both"
       /\ thr[t].req_az = 400 /\ thr[t].req_el = 200
       /\ thr[t].az_target = 360 /\ thr[t].el_target = 135
       /\ thr[t].was_clamped

\* C10: when send_command ends, LastRequest holds its requested azimuth and
\* elevation and its clamped flag.
LastRequestRecorded ==
    \A t \in Threads :
       AtReturn(t) =>
          last_request = << thr[t].req_az, thr[t].req_el, thr[t].was_clamped >>

\* ------------------------------------------------------------------------
\* Properties of calibrate
\* ------------------------------------------------------------------------
\* calibrate on thread t is about to return or raise
AtCalExit(t) == thr[t].op = "calibrate" /\ thr[t].pc = "op_exit"
\* fractions p <= q, and 0 <= p <= 1
FracLeq(p, q) == p[1] * q[2] <= q[1] * p[2]
InUnit(p) == p[2] > 0 /\ 0 <= p[1] /\ p[1] <= p[2]
\* the planned length of a calibration run
PlannedSecs ==
    CALIBRATE_DOWN_DURATION_SEC
      + CALIBRATE_UP_TRAVEL_DEGREES \div ELEVATION_SPEED_DPS
      + CALIBRATE_AZ_LEFT_DURATION_SEC
\* the last update of thread t is the "complete" one
LastIsComplete(t) ==
    /\ thr[t].upd_busy = "false"
    /\ thr[t].upd_stage = "complete"
    /\ thr[t].upd_progress = << 1, 1 >>

\* C11 as written: a calibration run in which no cancellation is observed
\* ends with the stored position (0, 90) and with the update busy=false,
\* cal_progress 1.0, cal_stage "complete" as its last one.
CalibrationCompletes ==
    \A t \in Threads :
       (AtCalExit(t) /\ ~thr[t].saw_cancel) =>
          (position = << 0, 90 >> /\ LastIsComplete(t))

\* C11: a calibration run in which no frame send fails (a serial handle is
\* set) and no cancellation is observed ends with the stored position
\* (0, 90) and with the update busy=false, cal_progress 1.0, cal_stage
\* "complete" as its last one; a run whose first frame cannot be sent
\* raises, leaves the position alone and its last update is "starting".
CalibrationCompletesWithSerial ==
    \A t \in Threads :
       (AtCalExit(t) /\ ~thr[t].saw_cancel) =>
          IF thr[t].raised
          THEN position = thr[t].pos_before /\ thr[t].upd_stage = "starting"
          ELSE position = << 0, 90 >> /\ LastIsComplete(t)

\* a calibration started away from (0, 90) has completed
CalibrationCompleted ==
    \E t \in Threads :
       /\ AtCalExit(t) /\ ~thr[t].saw_cancel /\ ~thr[t].raised
       /\ thr[t].pos_before # << 0, 90 >>
       /\ thr[t].cal_elapsed = PlannedSecs

\* C12: once calibrate has observed the signal it starts no later stage and
\* emits no "complete"; it ends with a last update "canceled", busy=false,
\* carrying elapsed/total within [0,1], and with the stored position it
\* started from.
CanceledCalibration ==
    /\ [](\A t \in Threads :
            (AtCalExit(t) /\ thr[t].saw_cancel) =>
               /\ thr[t].upd_stage = "canceled"
               /\ thr[t].upd_busy = "false"
               /\ thr[t].upd_progress = << thr[t].cal_elapsed, PlannedSecs >>
               /\ InUnit(thr[t].upd_progress)
               /\ position = thr[t].pos_before)
    /\ [][\A t \in Threads :
            (thr[t].op = "calibrate" /\ thr[t].saw_cancel) =>
               /\ thr'[t].stage = thr[t].stage \/ thr'[t].pc \in RestPcs
               /\ thr'[t].upd_stage # "complete"
               /\ wire' # wire => (wire'.frame = StopBytes \/ wire'.by # t)]_vars

\* a run canceled in the middle of its second stage has ended
CanceledInSecondStage ==
    \E t \in Threads :
       /\ AtCalExit(t) /\ thr[t].saw_cancel
       /\ thr[t].stage = 2
       /\ thr[t].remaining > 0
       /\ thr[t].cal_elapsed > CALIBRATE_DOWN_DURATION_SEC

\* C13: the cal_progress values one calibration run emits never decrease
\* and lie in [0,1]; the first tick of a stage carries the time of the
\* stages before it.
ProgressMonotone ==
    [][\A t \in Threads :
          (thr'[t].op = "calibrate" /\ thr'[t].upd_stage # "none") =>
             /\ InUnit(thr'[t].upd_progress)
             /\ thr[t].upd_stage # "none" =>
                   FracLeq(thr[t].upd_progress, thr'[t].upd_progress)
             /\ (thr[t].pc = "cal_stage" /\ thr'[t].pc = "cal_tick") =>
                   thr'[t].upd_progress[1] * PlannedSecs
                      = thr'[t].cal_elapsed * thr'[t].upd_progress[2]]_vars

\* a tick of the second stage reports more than the whole first stage
ProgressAcrossStages ==
    \E t \in Threads :
       /\ thr[t].op = "calibrate"
       /\ thr[t].upd_stage = "tilting up"
       /\ thr[t].upd_progress[1] * PlannedSecs
             > CALIBRATE_DOWN_DURATION_SEC * thr[t].upd_progress[2]
       /\ thr[t].upd_progress # << 1, 1 >>

\* the stage label that may follow each stage label
StageSuccessors(label) ==
    CASE label = "none" -> {"none", "starting"}
      [] label = "starting" -> {"starting", "moving fully down", "none"}
      [] label = "moving fully down" -> {"moving fully down", "tilting up", "canceled"}
      [] label = "tilting up" -> {"tilting up", "rotating azimuth fully left", "canceled"}
      [] label = "rotating azimuth fully left" ->
            {"rotating azimuth fully left", "complete", "canceled"}
      [] label = "complete" -> {"complete", "none"}
      [] label = "canceled" -> {"canceled", "none"}

\* the motion frame of each stage: down, up, left at the default speed byte
StageBytes(label) ==
    CASE label = "moving fully down" -> << 255, DEVICE_ADDRESS, 0, 16, 0, 32, (DEVICE_ADDRESS + 48) % 256 >>
      [] label = "tilting up" -> << 255, DEVICE_ADDRESS, 0, 8, 0, 32, (DEVICE_ADDRESS + 40) % 256 >>
      [] label = "rotating azimuth fully left" -> << 255, DEVICE_ADDRESS, 0, 4, 32, 0, (DEVICE_ADDRESS + 36) % 256 >>

\* C14: the stage labels of a calibration run follow the order starting,
\* down, up, left, complete; a stage begins by writing its motion frame and
\* the next stage (or "complete") begins only after a stop frame was
\* written; after "canceled" the run writes no frame, does not write the
\* position and emits no other label.
StageOrder ==
    [][\A t \in Threads :
          (thr[t].op \in {"none", "calibrate"} /\ thr'[t].op = "calibrate") =>
             LET old == thr[t].upd_stage
                 new == thr'[t].upd_stage
             IN /\ new \in StageSuccessors(old)
                /\ (new # old /\ new \in {"moving fully down", "tilting up",
                                             "rotating azimuth fully left"}) =>
                      /\ wire' = [frame |-> StageBytes(new), by |-> t]
                      /\ old # "starting" => thr[t].own_last = "stop"
                /\ (new # old /\ new = "complete") => thr'[t].own_last = "stop"
                /\ old = "canceled" =>
                      /\ position' = position
                      /\ wire' = wire \/ wire'.by # t]_vars

\* a run was canceled in its third stage, after two stages ran in full
CanceledFromLastStage ==
    \E t \in Threads :
       /\ thr[t].op = "calibrate"
       /\ thr[t].upd_stage = "canceled"
       /\ thr[t].stage = 3
       /\ thr[t].cal_elapsed >= CALIBRATE_DOWN_DURATION_SEC
                                  + CALIBRATE_UP_TRAVEL_DEGREES \div ELEVATION_SPEED_DPS

\* ------------------------------------------------------------------------
\* Properties of the TCP server
\* ------------------------------------------------------------------------
\* the kinds of the replies a connection got, in order
Kinds(replies) == [i \in 1..Len(replies) |-> replies[i].kind]
\* a parsed value equals a whole number of degrees
IsDegrees(value, deg) == value[1] = deg * value[2]
\* the last reply of connection c
LastReply(c) == conn[c].replies[Len(conn[c].replies)]
\* the lines the properties name, upper-cased
EasycommLine == << "A", "Z", "1", "8", "0", ".", "0", " ", "E", "L", "4", "5", ".", "0" >>
HamlibLine == << "P", " ", "1", "8", "0", " ", "4", "5" >>
AzelLine == << "A", "Z", "E", "L", " ", "1", "8", "0", " ", "4", "5" >>
GarbageLine == << "G", "A", "R", "B", "A", "G", "E" >>
GetLine == << "G", "E", "T" >>
StopLine == << "S", "T", "O", "P" >>

\* C15: the lines 'AZ180.0 EL45.0', 'P 180 45' and 'AZEL 180 45' all parse
\* to (180.0, 45.0) and are answered with OK; 'GARBAGE' parses to no match
\* and is answered with ERR.
ParserEquivalence ==
    \A c \in Conns :
       (conn[c].last.what = "line" /\ conn[c].pc # "stop") =>
          LET line == upper(conn[c].last.line)
              result == conn[c].last.result
          IN /\ line \in {EasycommLine, HamlibLine, AzelLine} =>
                   /\ result # << >>
                   /\ IsDegrees(result[1], 180) /\ IsDegrees(result[2], 45)
                   /\ LastReply(c).kind = "OK"
             /\ line = GarbageLine =>
                   result = << >> /\ LastReply(c).kind = "ERR"

\* a move dispatched by the server has not ended
MoveInProgress == \E t \in Threads : thr[t].ret = "tcp" /\ thr[t].pc \notin {"idle", "done"}

\* C16: the step that starts a move for a parsed set-position line sends OK
\* in the same step, before the move has taken any lock; and while a
\* dispatched move has not ended, a connection whose next line is GET or
\* STOP can handle it, and one with bytes to receive can receive them.
OkWithoutWaiting ==
    /\ [](\A c \in Conns :
            (conn[c].state = "open" /\ MoveInProgress) =>
               /\ (conn[c].pc = "lines"
                     /\ upper(FirstLine(conn[c].buffer)) \in {GetLine, StopLine}) =>
                        ENABLED (HandleGet(c) \/ HandleStop(c))
               /\ (conn[c].pc = "recv" /\ conn[c].off < Len(conn[c].stream)) =>
                        ENABLED (\E k \in 1..Len(conn[c].stream) : Recv(c, k)))
    /\ [][\A t \in Threads :
            (thr[t].pc = "idle" /\ thr'[t].pc # "idle") =>
               /\ thr'[t].pc = "mv_wait"
               /\ \E c \in Conns :
                     /\ conn[c].pc = "lines"
                     /\ conn'[c].replies = Append(conn[c].replies,
                                                  [kind |-> "OK", az |-> 0, el |-> 0])
                     /\ conn'[c].pc \in {"lines", "recv"}]_vars

\* a GET sent after a set-position line was answered, with the start
\* position, while the move was being driven
GetAnsweredDuringMove ==
    \E c \in Conns, t \in Threads :
       /\ Kinds(conn[c].replies) = << "OK", "AZEL" >>
       /\ conn[c].replies[2].az = 0
       /\ thr[t].ret = "tcp"
       /\ thr[t].pc \in MeasuredPcs
       /\ thr[t].slept > 0

\* the line a handler is about to handle is no GET, no STOP and no
\* set-position command
AtInvalidLine(c) ==
    /\ conn[c].state = "open"
    /\ conn[c].pc = "lines"
    /\ FirstLine(conn[c].buffer) # << >>
    /\ upper(FirstLine(conn[c].buffer)) \notin {GetLine, StopLine}
    /\ parse_easycomm_command(FirstLine(conn[c].buffer)) = << >>

\* C17: handling a line that is no GET, no STOP and no parsable
\* set-position command sends ERR, leaves the connection open and changes
\* nothing else: position, signal, config, threads and wire stay as they are.
InvalidLineAnswered ==
    [][\A c \in Conns :
          (AtInvalidLine(c) /\ conn'[c] # conn[c]) =>
             /\ conn'[c].replies = Append(conn[c].replies,
                                          [kind |-> "ERR", az |-> 0, el |-> 0])
             /\ conn'[c].state = "open"
             /\ conn'[c].buffer = Rest(conn[c].buffer)
             /\ position' = position
             /\ cancel_event' = cancel_event
             /\ config' = config
             /\ thr' = thr
             /\ wire' = wire]_vars

\* a GET was answered on a connection after an invalid line was
GarbageAnswered ==
    \E c \in Conns :
       /\ conn[c].stream = GarbageThenGet
       /\ conn[c].state = "open"
       /\ Kinds(conn[c].replies) = << "ERR", "AZEL" >>

\* the reply to one line
KindOfLine(line) ==
    IF upper(line) = GetLine THEN "AZEL"
    ELSE IF upper(line) = StopLine THEN "OK"
    ELSE IF parse_easycomm_command(line) # << >> THEN "OK"
    ELSE "ERR"

\* the replies to a text handled as a whole
RECURSIVE KindsOf(_)
KindsOf(text) ==
    IF ~HasLine(text) THEN << >>
    ELSE (IF FirstLine(text) = << >> THEN << >> ELSE << KindOfLine(FirstLine(text)) >>)
            \o KindsOf(Rest(text))

\* C18: once a connection has received its whole stream, a stream that is
\* text, the replies it got are those of the stream handled as one read,
\* however the stream was split into reads.
SplitIndependent ==
    \A c \in Conns :
       (conn[c].state = "open" /\ conn[c].pc = "recv"
          /\ conn[c].off = Len(conn[c].stream)
          /\ Decodable(conn[c].stream)) =>
             Kinds(conn[c].replies) = KindsOf(Normalized(decode(conn[c].stream)))

\* C19: a read whose bytes cannot be decoded is answered with ERR; the
\* connection stays open, the buffer keeps the pending partial command and
\* no thread is started.
UndecodableChunkRefused ==
    [][\A c \in Conns :
          (conn'[c].off > conn[c].off
             /\ ~Decodable(SubSeq(conn[c].stream, conn[c].off + 1, conn'[c].off))) =>
                /\ conn'[c].replies = Append(conn[c].replies,
                                             [kind |-> "ERR", az |-> 0, el |-> 0])
                /\ conn'[c].state = "open"
                /\ conn'[c].buffer = conn[c].buffer
                /\ conn'[c].pc = "recv"
                /\ thr' = thr]_vars

\* a partial command survived a refused chunk and was then completed
PartialKeptAcrossBadChunk ==
    \E c \in Conns :
       /\ conn[c].stream = GetWithBadByte
       /\ conn[c].last.what = "line"
       /\ conn[c].last.line = << "G", "E", "T" >>
       /\ Kinds(conn[c].replies) = << "ERR", "AZEL" >>

\* C20: the step that closes a connection changes that connection only:
\* the listener keeps listening and can accept, the other connections and
\* the moves (threads, signal, position, locks, wire) are as they were.
CloseIsLocal ==
    /\ [][\A c \in Conns :
            (conn[c].state = "open" /\ conn'[c].state = "closed") =>
               /\ \A d \in Conns \ {c} : conn'[d] = conn[d]
               /\ listening /\ listening'
               /\ thr' = thr
               /\ cancel_event' = cancel_event
               /\ position' = position
               /\ wire' = wire
               /\ move_lock' = move_lock /\ motion_lock' = motion_lock]_vars
    /\ [](\A c, d \in Conns :
            (conn[c].state = "closed" /\ conn[d].state = "new") =>
               ENABLED (\E s \in StreamsOf(d) : Accept(d, s)))

\* a connection was closed while the move it dispatched was being driven
\* and the other connection had a line to handle
ClosedDuringMove ==
    \E c, d \in Conns, t \in Threads :
       /\ conn[c].state = "closed"
       /\ Kinds(conn[c].replies) = << "OK" >>
       /\ thr[t].ret = "tcp" /\ thr[t].pc \in MeasuredPcs /\ ~cancel_event
       /\ conn[d].state = "open" /\ conn[d].pc = "lines"

\* C21: the step that answers GET appends one position line whose azimuth
\* and elevation are the two halves of the stored position (one
\* set_position write), and it changes nothing of the motion core: position,
\* signal, locks, threads, and the wire (no frame is written).
GetReadsOneWrite ==
    [][\A c \in Conns :
         (/\ Len(conn'[c].replies) = Len(conn[c].replies) + 1
          /\ LastReply(c)'.kind = "AZEL") =>
            /\ LastReply(c)'.az = position[1]
            /\ LastReply(c)'.el = position[2]
            /\ motion' = motion
            /\ listening' = listening
            /\ \A d \in Conns \ {c} : conn'[d] = conn[d]]_vars

\* GET was answered with the position a finished move stored, while the
\* frame that move wrote last is still the last one on the wire
GetAfterMove ==
    \E c \in Conns :
       /\ conn[c].replies # << >>
       /\ LastReply(c) = [kind |-> "AZEL", az |-> 180, el |-> 45]
       /\ position = << 180, 45 >>
       /\ wire.by \in Threads

\* ------------------------------------------------------------------------
\* Properties of the frame checksum
\* ------------------------------------------------------------------------
\* C22: a frame built from bytes verifies, and the same frame with any one
\* of its 7 bytes changed to a different value does not.
ChecksumRoundTrip ==
    tool.verdict \in { "true", "false" } =>
       (tool.verdict = "true" <=> tool.changed = 0)

\* a frame whose data bytes sum past 255 was refused after its sync byte
\* was changed, its sum still matching its checksum
ChangedSyncRefused ==
    /\ tool.changed = 1
    /\ tool.verdict = "false"
    /\ tool.pkt[2] + tool.pkt[3] + tool.pkt[4] + tool.pkt[5] + tool.pkt[6] > 255
    /\ SumOnly(tool.pkt)

\* ------------------------------------------------------------------------
\* Properties of the nudges
\* ------------------------------------------------------------------------
\* azimuth wrapped into [0, 360)
wrapAz(x) == x % 360

\* C23: the step that ends a nudge has pulsed for no longer than the given
\* duration and stores, for nudge_azimuth, the azimuth plus direction x
\* speed x time slept, wrapped modulo 360 and then clamped, with the
\* elevation as it was; for nudge_elevation, the elevation plus direction x
\* speed x time slept, clamped without wrapping, with the azimuth as it was.
NudgeUpdatesPosition ==
    [][\A t \in Threads :
         (thr[t].pc = "nz_end" /\ thr'[t].pc = "op_exit") =>
            LET L == thr[t]
            IN /\ L.slept <= L.dur
               /\ L.op = "nudge_azimuth" =>
                     /\ position'[1] =
                           clamp(wrapAz(position[1] + L.dir * AZIMUTH_SPEED_DPS * L.slept),
                                 AZ_MIN, AZ_MAX)
                     /\ position'[2] = position[2]
               /\ L.op = "nudge_elevation" =>
                     /\ position'[2] =
                           clamp(position[2] + L.dir * ELEVATION_SPEED_DPS * L.slept,
                                 ELEVATION_MIN, ELEVATION_MAX)
                     /\ position'[1] = position[1]]_vars

\* ------------------------------------------------------------------------
\* Properties of the configuration store
\* ------------------------------------------------------------------------
\* the file holds the whole JSON text of `data`
Complete(f) == f.exists /\ f.part = "complete"

\* C24: set_config has the new value in memory before and while it saves;
\* the config file changes only by the rename of a completely written temp
\* file that holds the in-memory config, so it is absent or complete at all
\* times; once set_config has returned, whether the save failed or not,
\* nothing was raised and get_config returns the new value; get_config of
\* a key that is neither stored nor a default returns no value.
ConfigSaveAtomic ==
    /\ [](~disk.file.exists \/ Complete(disk.file))
    /\ [](cfgop.key # "none" =>
             /\ config[cfgop.key] = cfgop.value
             /\ ~cfgop.raised
             /\ get_config(cfgop.key) = Found(cfgop.value))
    /\ [][disk'.file # disk.file =>
             /\ cfgop.pc = "replace"
             /\ disk'.file = disk.tmp
             /\ disk'.file = [exists |-> TRUE, data |-> config, part |-> "complete"]]_vars
    /\ [](cfgop.got_key = "EL_REFERENCE" => cfgop.got = NotFound)

\* a save failed with the temp file half written: set_config has returned,
\* the config file still holds the complete previous content, and
\* get_config has returned the new value
FailedSaveKeptMemory ==
    /\ cfgop.pc = "idle"
    /\ cfgop.failed
    /\ Complete(disk.file)
    /\ disk.file.data # config
    /\ disk.tmp.exists /\ disk.tmp.part = "partial"
    /\ cfgop.got_key = cfgop.key
    /\ cfgop.got = Found(cfgop.value)

\* ------------------------------------------------------------------------
\* Properties of sending without a serial handle
\* ------------------------------------------------------------------------
\* thread t is at a call of _pelco_move_axes / send_pelco_d with a direction
MotionFrameDue(t) ==
    \/ thr[t].pc = "bk_begin" /\ BreakawaySec(el_dir(thr[t]), position[2]) > 0
    \/ thr[t].pc \in {"mv_begin", "nz_send", "cal_stage"}
    \/ thr[t].pc = "mv_both_end" /\ ~cancel_event
          /\ thr[t].slept >= thr[t].dur /\ az_time(thr[t]) # el_time(thr[t])
    \/ thr[t].pc = "sc_norm" /\ ~cancel_event /\ thr[t].el_target = 90
          /\ config.EL_APPROACH_OVERSHOOT_DEG > 0
    \/ thr[t].pc = "sc_zero" /\ ~cancel_event /\ thr[t].az_target = 0
          /\ config.ZERO_OVERDRIVE_SEC > 0
\* thread t is at a call of _stop_motor that no motion frame follows
StopFrameDue(t) ==
    \/ thr[t].pc = "bk_check" /\ cancel_event
    \/ thr[t].pc \in {"bk_stop", "mv_rest_az_end", "mv_rest_el_end", "mv_az_end",
                      "mv_el_end", "no_dn_end", "zo_end", "nz_end", "cal_stop"}
    \/ thr[t].pc = "mv_both_end" /\ ~MotionFrameDue(t)
\* the operation of thread t is left by an exception
Propagates(L) == L.raised /\ L.pc \in {"sc_finally", "op_exit"}

\* C25 as written: without a serial handle every step that is to send a
\* frame, motion or stop, writes nothing and leaves the operation with the
\* error raised, stop() included.
FrameSendRaises ==
    [][~serial_port =>
         /\ wire' = wire
         /\ \A t \in Threads :
               ((MotionFrameDue(t) \/ StopFrameDue(t)) /\ thr'[t].pc # thr[t].pc) =>
                  Propagates(thr'[t])
         /\ (stopper = "stop_motor" /\ stopper' # stopper) => stopper' # "idle"]_vars

\* C25, amended: without a serial handle nothing is written; a motion frame
\* raises the error out of send_command, nudge_* and calibrate, which send
\* no further frame; a stop frame (_stop_motor: stop(), and the stop that
\* ends a phase) is passed over without an error and the caller goes on.
MotionFrameSendRaises ==
    /\ [][~serial_port =>
            /\ wire' = wire
            /\ \A t \in Threads :
                  thr'[t].pc # thr[t].pc =>
                     /\ MotionFrameDue(t) => Propagates(thr'[t])
                     /\ StopFrameDue(t) => ~thr'[t].raised
            /\ (stopper = "stop_motor" /\ stopper' # stopper) => stopper' = "idle"]_vars
    /\ [](\A t \in Threads :
            thr[t].raised =>
               thr[t].pc \in {"sc_finally", "sc_exit", "op_exit", "mv_unlock", "done"})

\* without a serial handle stop() has returned, and then a send_command
\* was left by the error of its first motion frame; nothing was written
RaisedAfterSilentStop ==
    \E t \in Threads :
       /\ ~serial_port
       /\ cancel_event /\ stopper = "idle"
       /\ thr[t].op = "send_command" /\ thr[t].pc = "sc_exit" /\ thr[t].raised
       /\ wire = NoFrame

\* ------------------------------------------------------------------------
\* Properties of the updates of send_command
\* ------------------------------------------------------------------------
\* C26: a send_command that is about to return has passed exactly one
\* payload with busy False to the callback, that payload is the last one
\* and carries the result message, the requested azimuth and elevation and
\* the clamped flag.
ExactlyOneFinalUpdate ==
    \A t \in Threads :
       AtReturn(t) =>
          /\ thr[t].finals = 1
          /\ thr[t].upd_busy = "false"
          /\ thr[t].upd_msg = thr[t].return_msg
          /\ thr[t].upd_req = << thr[t].req_az, thr[t].req_el, thr[t].was_clamped >>

\* ------------------------------------------------------------------------
\* Properties of the timed waits
\* ------------------------------------------------------------------------
\* where a timed wait has returned its slept time
WaitEndPcs == { AfterSleep(pc) : pc \in SleepPcs }

\* C27: a timed wait sleeps in increments of at most the polling increment
\* and begins no increment once the signal is set: with the signal set the
\* only step of the wait is its end, so it ends within the increment that
\* was in progress, whatever time remained; the time it reports lies
\* between 0 and the requested duration.
WaitEndsWithinIncrement ==
    /\ [][\A t \in Threads :
            (/\ thr[t].pc \in SleepPcs
             /\ thr'[t].pc = thr[t].pc
             /\ thr'[t].slept # thr[t].slept) =>
                /\ ~cancel_event
                /\ thr'[t].slept - thr[t].slept \in 1 .. PollInc]_vars
    /\ [](\A t \in Threads :
            (thr[t].pc \in SleepPcs /\ cancel_event) =>
               /\ ENABLED SleepExit(t)
               /\ ~ENABLED SleepChunk(t))
    /\ [](\A t \in Threads :
            thr[t].pc \in SleepPcs \cup WaitEndPcs =>
               0 <= thr[t].slept /\ thr[t].slept <= thr[t].dur)

\* a wait of calibrate was ended by the signal with more than one polling
\* increment of its duration left
WaitCutShort ==
    \E t \in Threads :
       /\ thr[t].pc = "cal_slept"
       /\ cancel_event
       /\ thr[t].slept > 0
       /\ thr[t].dur - thr[t].slept > PollInc

\* ------------------------------------------------------------------------
\* Properties of the axis-staggered motion
\* ------------------------------------------------------------------------
\* the axes a frame drives: the pan bits (0x02, 0x04) and the tilt bits
\* (0x08, 0x10) of cmd2
DrivesAz(frame) == (frame[4] \div 2) % 2 = 1 \/ (frame[4] \div 4) % 2 = 1
DrivesEl(frame) == (frame[4] \div 8) % 2 = 1 \/ (frame[4] \div 16) % 2 = 1

\* thread t takes a step of send_command that writes `wire'`
WritesFrom(t, pcs) ==
    /\ thr[t].pc \in pcs
    /\ thr'[t].pc # thr[t].pc
    /\ wire' # wire
    /\ wire'.by = t

\* the frames and the durations of the measured phases of send_command on
\* thread t, with a serial handle set
StaggeredPhases(t) ==
    LET L == thr[t]
        azd == L.az_target - L.az_current
        eld == L.el_target - L.el_current
        frame == wire'.frame
    IN /\ (L.pc = "mv_begin" /\ thr'[t].pc # L.pc /\ serial_port) =>
             /\ wire'.by = t
             /\ DrivesAz(frame) <=> azd # 0
             /\ DrivesEl(frame) <=> eld # 0
             /\ thr'[t].dur = IF azd # 0 /\ eld # 0 THEN Min(az_time(L), el_time(L))
                              ELSE IF azd # 0 THEN az_time(L) ELSE el_time(L)
       /\ (/\ L.pc = "mv_both_end" /\ thr'[t].pc # L.pc /\ serial_port
           /\ ~cancel_event /\ L.slept >= L.dur) =>
             /\ wire'.by = t
             /\ DrivesAz(frame) <=> az_time(L) > el_time(L)
             /\ DrivesEl(frame) <=> el_time(L) > az_time(L)
             /\ az_time(L) # el_time(L) => thr'[t].dur = Abs(az_time(L) - el_time(L))
             /\ az_time(L) = el_time(L) => frame = StopBytes /\ thr'[t].pc = "sc_norm"
       /\ (L.pc = "sc_norm" /\ ~L.stop_during /\ ~L.raised) =>
             /\ L.drive_az = az_time(L)
             /\ L.drive_el = el_time(L)

\* where send_command writes the frames of the breakaway pulse and of the
\* axis-staggered phases, and where it writes those of the normalization
\* pulses
StaggerPcs == { "bk_begin", "mv_begin", "mv_both_end" }
NormPcs == { "sc_norm", "no_up_end", "sc_zero" }

\* the frame thread t writes from one of `pcs` drives no axis whose delta
\* is zero
NoIdleAxisDriven(t, pcs) ==
    WritesFrom(t, pcs) =>
       /\ DrivesAz(wire'.frame) => thr[t].az_target # thr[t].az_current
       /\ DrivesEl(wire'.frame) => thr[t].el_target # thr[t].el_current

\* C28 as written: the both-axes frame for min(azTime, elTime), then the
\* frame of the axis with time left for |azTime - elTime| and no second
\* frame when the times are equal; one axis alone for its full time; and no
\* frame that send_command writes drives an axis whose delta is zero.
AxisStaggered ==
    [][\A t \in Threads :
         StaggeredPhases(t) /\ NoIdleAxisDriven(t, StaggerPcs \cup NormPcs)]_vars

\* C28, amended: the same phases, frames and durations; no frame of the
\* breakaway pulse and of the axis-staggered phases drives an axis whose
\* delta is zero (the normalization pulses, when enabled in the config,
\* drive their axis whatever its delta).
AxisStaggeredPhases ==
    [][\A t \in Threads :
         StaggeredPhases(t) /\ NoIdleAxisDriven(t, StaggerPcs)]_vars

\* an uncanceled move of both axes has driven both for min(azTime, elTime)
\* and then the azimuth alone for the time left, and is past its phases
BothThenAzimuth ==
    \E t \in Threads :
       /\ thr[t].pc = "sc_norm"
       /\ ~thr[t].stop_during
       /\ thr[t].drive_el = el_time(thr[t])
       /\ thr[t].drive_el > 0
       /\ thr[t].drive_az > thr[t].drive_el

\* ------------------------------------------------------------------------
\* Properties of the stop frames of send_command
\* ------------------------------------------------------------------------
\* C29: in send_command every motion frame is followed by a stop frame
\* before the next motion frame is written: no invocation writes a motion
\* frame right after a motion frame, and each phase that has ended left a
\* stop frame as the last frame of the invocation.
StopAfterEachPhase ==
    \A t \in Threads :
       InSendBody(t) =>
          /\ ~thr[t].back_to_back
          /\ (serial_port /\ thr[t].pc \in {"bk_check", "sc_norm", "sc_zero"}
                 /\ thr[t].own_last # "none") => thr[t].own_last = "stop"

\* ------------------------------------------------------------------------
\* Properties of the frames
\* ------------------------------------------------------------------------
\* the bits of cmd2: right 0x02, left 0x04, up 0x08, down 0x10
Bit(cmd2, b) == (cmd2 \div b) % 2

\* C30: every frame on the wire is 7 bytes: 0xFF, the device address,
\* cmd1 = 0, cmd2, data1, data2 and the sum of bytes 2..6 modulo 256; cmd2
\* has no bit beside the four direction bits, not both pan bits and not
\* both tilt bits; data1 is 0 with no pan bit and data2 is 0 with no tilt
\* bit; and a request with no direction gives the stop frame.
FrameFormat ==
    /\ wire # NoFrame =>
          LET f == wire.frame
          IN /\ Len(f) = 7
             /\ \A i \in 1 .. 7 : f[i] \in 0 .. 255
             /\ f[1] = 255
             /\ f[2] = DEVICE_ADDRESS
             /\ f[3] = 0
             /\ f[7] = (f[2] + f[3] + f[4] + f[5] + f[6]) % 256
             /\ verify_checksum(f)
             /\ f[4] < 32 /\ Bit(f[4], 1) = 0
             /\ Bit(f[4], 2) + Bit(f[4], 4) <= 1
             /\ Bit(f[4], 8) + Bit(f[4], 16) <= 1
             /\ Bit(f[4], 2) + Bit(f[4], 4) = 0 => f[5] = 0
             /\ Bit(f[4], 8) + Bit(f[4], 16) = 0 => f[6] = 0
    /\ \A pan_speed, tilt_speed \in { DefaultSpeedByte, EL_BREAKAWAY_SPEED_BYTE } :
          MoveFrame(0, 0, pan_speed, tilt_speed) = StopBytes

\* the kick frame of the breakaway pulse is on the wire: tilt up alone at
\* the breakaway speed, no pan speed
KickFrameWritten ==
    /\ wire.by \in Threads
    /\ wire.frame = << 255, DEVICE_ADDRESS, 0, 8, 0, EL_BREAKAWAY_SPEED_BYTE,
                       DEVICE_ADDRESS + 8 + EL_BREAKAWAY_SPEED_BYTE >>

\* ------------------------------------------------------------------------
\* C31 .. C40
\* ------------------------------------------------------------------------
\* a breakaway pulse is due: elevation must move and the start elevation lies
\* within the near-stop band of the limit it moves away from
InBand(L) ==
    \/ el_dir(L) > 0 /\ NearLow(L.el_current)
    \/ el_dir(L) < 0 /\ NearHigh(L.el_current)

\* the configured length of the pulse in the direction of the move is positive
KickConfigured(L) ==
    IF el_dir(L) > 0 THEN config.EL_BREAKAWAY_SEC_UP > 0 ELSE EL_BREAKAWAY_SEC_DOWN > 0

\* send_command on thread t is past _breakaway_tilt and has not raised
PastKick(t) ==
    InSendBody(t) /\ thr[t].pc \notin {"bk_begin", "bk_sleep", "bk_stop"} /\ ~thr[t].raised

\* the frame of the pulse: elevation only, at the breakaway speed
KickFrame(L) == MoveFrame(0, el_dir(L), DefaultSpeedByte, EL_BREAKAWAY_SPEED_BYTE)

\* the part of the claim that does not depend on when a pulse is due: the
\* pulse comes before every other frame of the call, a stop frame follows it,
\* the time it takes is counted neither as time driven nor as degrees
\* travelled, and once the signal is set during it the call writes only
\* stop frames and starts no measured phase
KickUncounted ==
    /\ [](\A t \in Threads :
            LET L == thr[t]
            IN /\ L.pc = "bk_begin" => L.own_last = "none" /\ ~L.kicked
               /\ L.pc = "bk_sleep" =>
                     /\ L.kicked
                     /\ wire = Written(t, KickFrame(L)) \/ wire.by = StopCaller
               /\ L.pc \in {"bk_sleep", "bk_stop", "bk_check"} =>
                     /\ L.drive_az = 0 /\ L.drive_el = 0
                     /\ L.partial_az = 0 /\ L.partial_el = 0
               /\ L.pc = "bk_check" /\ L.kicked => L.own_last = "stop"
               /\ L.pc \in MeasuredPcs =>
                     L.dur = CASE L.pc = "mv_both" -> Min(az_time(L), el_time(L))
                               [] L.pc = "mv_az" -> az_time(L)
                               [] L.pc = "mv_el" -> el_time(L)
                               [] OTHER -> Abs(az_time(L) - el_time(L))
               /\ L.pc = "sc_norm" /\ L.return_msg = "Moved to" /\ ~L.saw_cancel =>
                     /\ L.drive_az = az_time(L) /\ L.drive_el = el_time(L)
                     /\ L.partial_az = Travel(az_dir(L), az_speed, az_time(L))
                     /\ L.partial_el = Travel(el_dir(L), el_speed_eff(L), el_time(L)))
    /\ [][\A t \in Threads :
            thr[t].pc \in {"bk_sleep", "bk_stop", "bk_check"} /\ cancel_event =>
               /\ thr'[t].pc \notin MeasuredPcs \cup {"mv_begin"}
               /\ wire' # wire => wire'.frame = StopBytes]_vars

\* C31 as written: a breakaway pulse is issued exactly when elevation must
\* move and the current elevation lies within the near-stop band of the limit
\* it moves away from.
KickExactlyInBand ==
    \A t \in Threads : PastKick(t) => (thr[t].kicked <=> InBand(thr[t]))

\* C31: a breakaway pulse is issued exactly when elevation must move, the
\* current elevation lies within the near-stop band of the limit it moves
\* away from and the configured length of the pulse in that direction is
\* positive; it comes before any measured motion frame, a stop frame follows
\* it, its duration counts neither as measured motion time nor as degrees
\* travelled, and when the cancellation signal is seen during it no measured
\* motion frame is written.
BreakawayPulse ==
    /\ [](\A t \in Threads :
            PastKick(t) => (thr[t].kicked <=> InBand(thr[t]) /\ KickConfigured(thr[t])))
    /\ KickUncounted

\* a move that began with a pulse was driven for its whole measured time
KickedThenMoved ==
    \E t \in Threads :
       /\ thr[t].pc = "sc_norm"
       /\ thr[t].kicked
       /\ thr[t].return_msg = "Moved to"
       /\ thr[t].drive_el = el_time(thr[t])
       /\ thr[t].drive_el > 0
       /\ thr[t].elapsed > thr[t].drive_el + thr[t].drive_az

\* caller u waits for a lock that another caller holds
Waits(u) ==
    \/ lk[u].pc = "move_lock" /\ move_lock # 0
    \/ lk[u].pc = "motion_lock" /\ ~CanAcquireMotion(u)
    \/ lk[u].pc = "body" /\ lk[u].todo # << >> /\ ~CanAcquireState(u)

\* the order in which the locks are taken: the move lock with no other lock
\* held, the motion lock with no state lock held, and nothing while the
\* state lock is held; a caller at rest holds no lock
LockOrder ==
    \A u \in LockUsers :
       /\ lk[u].pc = "move_lock" => ~HoldsAny(u)
       /\ lk[u].pc = "motion_lock" => ~HoldsState(u)
       /\ HoldsState(u) => lk[u].pc = "state" /\ ~Waits(u)
       /\ HoldsMove(u) => lk[u].op = "_move_async"
       /\ lk[u].op \in { "stop", "get_position" } => ~HoldsMotion(u) /\ ~HoldsMove(u)
       /\ lk[u].pc = "idle" => ~HoldsAny(u)

\* while an operation is in progress some caller can take a step
CanProceed ==
    (\E u \in LockUsers : lk[u].pc # "idle") => \E u \in LockUsers : ENABLED LockStep(u)

\* C32: moves dispatched by the server (move lock, then motion lock),
\* send_command, nudge, calibrate and run_demo_sequence invoked from the web
\* form, stop(), the accessors of the state store and the update callbacks
\* that read it inside the motion lock never deadlock: the locks are taken
\* in one order, in every state some caller can go on, and every operation
\* that was invoked returns with all its locks released.
NoLockDeadlock ==
    /\ [](LockOrder /\ CanProceed)
    /\ \A u \in LockUsers : (lk[u].pc # "idle") ~> (lk[u].pc = "idle" /\ ~HoldsAny(u))

\* the three locks are held by three callers at once: a dispatched move
\* holds the move lock and waits for the motion lock of a demo, whose nested
\* send_command waits for the state lock that stop() holds, as does a reader
ThreeLocksHeld ==
    \E t, v \in Threads :
       /\ t # v
       /\ HoldsMove(t) /\ lk[t].pc = "motion_lock"
       /\ HoldsMotion(v) /\ motion_lock.count = 2 /\ Waits(v)
       /\ HoldsState(StopCaller)
       /\ lk[Reader].pc = "body" /\ Waits(Reader)

\* C33: with a serial handle set, whenever no operation holds the motion
\* lock the last frame written is a stop frame, or no frame was written yet;
\* send_command, nudge_azimuth, nudge_elevation, calibrate and
\* run_demo_sequence, canceled or not, leave "with _motion_lock" with a stop
\* frame after their last motion frame.
IdleDeviceIsStopped ==
    /\ serial_port /\ motion_lock.owner = 0 => wire.frame \in { << >>, StopBytes }
    /\ \A t \in Threads :
          thr[t].pc \in {"sc_exit", "op_exit"} =>
             /\ thr[t].own_last # "move"
             /\ serial_port => wire.frame \in { << >>, StopBytes }

\* a demo whose last send_command was canceled is about to release the
\* motion lock: the last frame on the wire is the stop frame it wrote
CanceledDemoReleased ==
    \E t \in Threads :
       /\ thr[t].op = "run_demo_sequence"
       /\ thr[t].pc = "op_exit"
       /\ thr[t].stop_during
       /\ serial_port
       /\ wire = [frame |-> StopBytes, by |-> t]

\* C34: once stop() has set the cancellation signal while a send_command or
\* a calibrate is running, that operation writes only stop frames.
NoMotionFrameAfterStop ==
    [][\A t \in Threads :
          /\ thr[t].op \in {"send_command", "calibrate"}
          /\ PastClear(t)
          /\ cancel_event
          /\ wire' # wire
          /\ wire'.by = t
          => wire'.frame = StopBytes]_vars

\* C35: when send_command returns "Moved to az=X, el=Y" the stored position
\* is the clamped target (X, Y), whatever stop() calls ran beside it; when it
\* returns "Move interrupted" the call observed the cancellation signal.
MovedToMeansAtTarget ==
    \A t \in Threads :
       AtReturn(t) /\ ~thr[t].raised =>
          /\ thr[t].return_msg = "Moved to" =>
                position = << thr[t].az_target, thr[t].el_target >>
          /\ thr[t].return_msg = "Move interrupted" => thr[t].saw_cancel

\* C36: when send_command, nudge_azimuth, nudge_elevation or calibrate
\* raises because a frame cannot be sent, the stored position is the one
\* the call found.
FailedCallKeepsPosition ==
    \A t \in Threads :
       thr[t].raised /\ thr[t].pc \in {"sc_exit", "op_exit"} =>
          position = IF thr[t].op = "send_command"
                     THEN << thr[t].az_current, thr[t].el_current >>
                     ELSE thr[t].pos_before

\* C37: every motion operation that passed a busy=true update to its
\* callback passes a busy=false update before it returns or raises, also
\* when a frame cannot be sent for want of a serial handle.
BusyAlwaysCleared ==
    \A t \in Threads :
       thr[t].pc \in {"sc_exit", "op_exit"} => thr[t].upd_busy = "false"

\* a run_demo_sequence whose loop over the steps was left because the
\* cancellation signal was set: it is in its last send_command with steps
\* not yet taken
DemoInterrupted(t) ==
    /\ thr[t].op = "run_demo_sequence"
    /\ thr[t].ret = "demo_final"
    /\ thr[t].step_i <= Len(DemoSteps)

\* C38: once stop() has interrupted a run_demo_sequence, the demo writes no
\* further motion frame and the stored position stays where the interrupted
\* step left it.
DemoStopsAtStop ==
    [][\A t \in Threads :
          DemoInterrupted(t) =>
             /\ ~(wire' # wire /\ wire'.by = t /\ wire'.frame # StopBytes)
             /\ position' = position]_vars

\* C39: the set-position lines of one connection are carried out in the
\* order received: once the two moves of "P 180 45;P 90 45" have both been
\* started and have ended, with no stop() in between, the stored position is
\* the target of the second.
MovesInOrderReceived ==
    ( /\ conn[1].stream = TwoMoves
      /\ conn[1].replies = << OkReply, OkReply >>
      /\ \A t \in Threads : thr[t].pc \in {"idle", "done"} )
    => position = << 90, 45 >>

\* run_demo_sequence is inside its "with _motion_lock" block
InDemo(t) ==
    /\ thr[t].op = "run_demo_sequence"
    /\ thr[t].pc \notin {"idle", "demo_lock", "done"}

\* C40: run_demo_sequence holds the motion lock from its first step to its
\* last; each nested send_command can enter "with _motion_lock" again on
\* the same thread and holds it a second time; and while the demo runs every
\* frame written is the demo's own or a stop frame of stop(), never a frame
\* of a server-dispatched move, a nudge or a calibrate.
DemoHoldsMotionLock ==
    /\ [](\A t \in Threads :
            InDemo(t) =>
               /\ motion_lock.owner = t
               /\ motion_lock.count \in {1, 2}
               /\ thr[t].pc = "sc_lock" => ENABLED ScLock(t)
               /\ (motion_lock.count = 2) <=>
                     thr[t].pc \notin {"demo_clear", "demo_loop", "demo_settle",
                                       "sc_lock", "op_exit"})
    /\ [][\A t \in Threads :
            InDemo(t) /\ wire' # wire => wire'.by \in {t, StopCaller}]_vars

\* a nested send_command of the demo has written a motion frame while it
\* holds the lock twice and the other thread waits for it
DemoNestedWhileQueued ==
    \E t \in Threads :
       /\ InDemo(t)
       /\ thr[t].step_i > 2
       /\ motion_lock = [owner |-> t, count |-> 2]
       /\ wire.by = t /\ wire.frame \notin { << >>, StopBytes }
       /\ \E u \in Threads \ {t} : Queued(u)

====
